---- MODULE Spec2Model ----
(***************************************************************************)
(* A model of khoj, an offline hybrid file-search engine:                  *)
(*   - the metadata/content store (src/src/storage/mod.rs),                *)
(*   - the inverted index wrapper (src/src/storage/tantivy_index.rs),      *)
(*   - the flat vector store (src/src/storage/vector_store.rs),            *)
(*   - reciprocal rank fusion (src/src/search/mod.rs),                     *)
(*   - the indexing pipeline index_folder (src/src/main.rs).               *)
(* Each component has its own specification (SpecDb, SpecIdx, SpecVS,      *)
(* SpecRRF, SpecPipe) over the shared state below; the pipeline drives     *)
(* the same store operators the component specifications exercise.         *)
(*                                                                         *)
(* Numbers: f32 scores are modelled by exact integers / rationals; a file  *)
(* is identified by its path number, its bytes by a content version, and   *)
(* SHA-256 by the (injective) identity on versions.                        *)
(***************************************************************************)
EXTENDS Integers, Sequences, FiniteSets, TLC

VARIABLES
    files,          \* table files: path -> row (id = 0: no row)
    content,        \* table content: file_id -> text version (0: no row)
    next_id,        \* one more than the largest id ever assigned
    db_last,        \* the last Database call and what it returned
    first_id,       \* history: path -> id its first upsert_file returned
                    \* since the path was last deleted (0: none)
    vs_vectors,     \* VectorStore.vectors: file_id -> vector (<<>>: no entry)
    vs_last,        \* the last VectorStore call and what it returned
    vs_file,        \* the file VectorStore::save wrote last (SpecSave)
    idx_writer,     \* TantivyIndex.writer: the documents as of every
                    \* operation given to the writer, committed or not
    idx_committed,  \* the documents as of the writer's last commit
    idx_reader,     \* TantivyIndex.reader: the searcher's snapshot
    idx_last,       \* the last TantivyIndex call and what it returned
    idx_at_commit,  \* history: the snapshot as of the last commit() call
    idx_batch,      \* history: file_id -> the document upsert_document wrote
                    \* for it since the last commit() call
    idx_replaced,   \* history: the documents of the batch written last
                    \* that a later upsert_document of that batch replaced
                    \* by a different one
    rrf_in,         \* the rankings and weight a fusion call is made with
    rrf_last,       \* the fusion call made: its arguments and its output
    snip_in,        \* the text, query and radius extract_snippet is given
    snip_last,      \* the extract_snippet call made and what it returned
    disk,           \* the files under the indexed root: path -> bytes
    pipe,           \* index_folder: where the run is, its options, the
                    \* files still to process and its counters
    run_vectors,        \* index_folder's vector_store (text embeddings)
    run_image_vectors,  \* index_folder's image_vector_store
    vectors_json,       \* the file vectors.json
    image_vectors_json, \* the file image_vectors.json
    last_run,       \* history: what the last finished run left
    quiet,          \* history: nothing was edited or deleted since then
    writer_lock,    \* the process holding the index directory's writer lock
    procs,          \* process -> what it runs and where it is with the index
    wr,             \* the save in progress: its position and the file before
    call_in,        \* the arguments of a call of a function studied alone
    call_out        \* that call's name and result

dbVars == <<files, content, next_id, db_last, first_id>>
vsVars == <<vs_vectors, vs_last>>
fileVars == <<vs_file, wr>>
idxVars == <<idx_writer, idx_committed, idx_reader, idx_last, idx_at_commit,
            idx_batch, idx_replaced>>
rrfVars == <<rrf_in, rrf_last>>
snipVars == <<snip_in, snip_last>>
pipeVars == <<disk, pipe, run_vectors, run_image_vectors, vectors_json,
             image_vectors_json, last_run, quiet>>
lockVars == <<writer_lock, procs>>
callVars == <<call_in, call_out>>
vars == <<dbVars, vsVars, fileVars, idxVars, rrfVars, snipVars, pipeVars,
          lockVars, callVars>>

(***************************************************************************)
(* Bounds                                                                  *)
(***************************************************************************)
NumPaths == 2
NumVersions == 2
MaxRowId == 3
NumVecIds == 2
MaxComp == 1
MaxListLen == 3
NumIdxIds == 2
MaxRuns == 2
MaxEdits == 1
MaxDeletes == 1
MaxTextLen == 4
MaxQueryLen == 2
MaxRadius == 2
MaxFaults == 1
NumProcs == 3
MaxQueries == 2
MaxPathLen == 3
MaxPatternLen == 2

Paths == 1..NumPaths
Versions == 1..NumVersions
Hashes == Versions
FileIds == 1..MaxRowId

Max(a, b) == IF a >= b THEN a ELSE b
Min(a, b) == IF a <= b THEN a ELSE b

(***************************************************************************)
(* File kinds (types::FileType)                                            *)
(***************************************************************************)
FileType == {"Text", "Code", "Markdown", "Pdf", "Docx", "Xlsx", "Image",
             "Archive", "Unknown"}

as_str(ft) ==
    CASE ft = "Text" -> "text"
      [] ft = "Code" -> "code"
      [] ft = "Markdown" -> "markdown"
      [] ft = "Pdf" -> "pdf"
      [] ft = "Docx" -> "docx"
      [] ft = "Xlsx" -> "xlsx"
      [] ft = "Image" -> "image"
      [] ft = "Archive" -> "archive"
      [] OTHER -> "unknown"

\* The walker classifies a path by its extension, so a path has one kind:
\* path 1 is a .txt file, path 2 a .png image, path 3 a .xlsx sheet, and
\* every further path a .rs source file.
detect_file_type(p) ==
    CASE p = 1 -> "Text"
      [] p = 2 -> "Image"
      [] p = 3 -> "Xlsx"
      [] OTHER -> "Code"

(***************************************************************************)
(* Metadata/content store: Database                                        *)
(***************************************************************************)
NoRow == [id |-> 0, hash |-> 0, file_type |-> "", indexed_at |-> 0]

HasRow(fs, p) == fs[p].id # 0

RowIds(fs) == {fs[p].id : p \in {q \in DOMAIN fs : HasRow(fs, q)}}

MaxOf(S) == IF S = {} THEN 0 ELSE CHOOSE m \in S : \A x \in S : x <= m

\* The id SQLite gives a new row of files: one more than the largest rowid
\* in the table (INTEGER PRIMARY KEY), or one more than the largest rowid
\* ever used (AUTOINCREMENT); schema.sql decides which.
NewRowIds(fs, nid) == {MaxOf(RowIds(fs)) + 1, nid}

FileMetadata(p, h, t) ==
    [path |-> p, hash |-> h, file_type |-> detect_file_type(p), indexed_at |-> t]

\* INSERT ... ON CONFLICT(path) DO UPDATE SET ... RETURNING id
upsert_file_always_inserts(fs, nid, meta, newid) ==
    [files |-> [fs EXCEPT ![meta.path] =
                    [id |-> newid, hash |-> meta.hash,
                     file_type |-> as_str(meta.file_type),
                     indexed_at |-> meta.indexed_at]],
     next_id |-> Max(nid, newid + 1),
     id |-> newid]

upsert_file(fs, nid, meta, newid) ==
    IF HasRow(fs, meta.path)
    THEN [files |-> [fs EXCEPT ![meta.path] =
                        [id |-> fs[meta.path].id, hash |-> meta.hash,
                         file_type |-> as_str(meta.file_type),
                         indexed_at |-> meta.indexed_at]],
          next_id |-> nid,
          id |-> fs[meta.path].id]
    ELSE [files |-> [fs EXCEPT ![meta.path] =
                        [id |-> newid, hash |-> meta.hash,
                         file_type |-> as_str(meta.file_type),
                         indexed_at |-> meta.indexed_at]],
          next_id |-> Max(nid, newid + 1),
          id |-> newid]

\* content.file_id REFERENCES files(id): an insert for an id without a File
\* row is refused by the foreign key.
ForeignKeyOk(fs, id) == id \in RowIds(fs)

\* INSERT INTO content ... ON CONFLICT(file_id) DO UPDATE SET text = ...
upsert_content(ct, id, text) == [ct EXCEPT ![id] = text]

get_file(fs, id) == {p \in DOMAIN fs : HasRow(fs, p) /\ fs[p].id = id}

get_file_by_path(fs, p) == fs[p]

get_content(ct, id) == ct[id]

\* SELECT hash FROM files WHERE path = ?; Some(row) => stored != current
needs_reindex_ignores_hash(fs, p, h) == ~HasRow(fs, p)

needs_reindex(fs, p, h) ==
    IF HasRow(fs, p) THEN fs[p].hash # h ELSE TRUE

count_files(fs) == Cardinality({p \in DOMAIN fs : HasRow(fs, p)})

\* DELETE FROM files WHERE path = ?
delete_file_all_rows(fs, p) == [q \in DOMAIN fs |-> NoRow]

delete_file(fs, p) == [fs EXCEPT ![p] = NoRow]

\* content(file_id ... ON DELETE CASCADE): a content row goes with its File.
on_delete_cascade(ct, fsAfter) ==
    [i \in DOMAIN ct |-> IF i \in RowIds(fsAfter) THEN ct[i] ELSE 0]

(***************************************************************************)
(* Database calls as actions                                               *)
(***************************************************************************)
\* A call record: the operation, its arguments (path, hash or text, id), its
\* return value, and the id and content the addressed File had before it.
DbCall(op, p, h, i, ret, bid, bct) ==
    [op |-> op, path |-> p, hash |-> h, id |-> i, ret |-> ret,
     before_id |-> bid, before_content |-> bct]

DbInit ==
    /\ files = [p \in Paths |-> NoRow]
    /\ content = [i \in FileIds |-> 0]
    /\ next_id = 1
    /\ db_last = DbCall("new", 0, 0, 0, 0, 0, 0)
    /\ first_id = [p \in Paths |-> 0]

UpsertFile ==
    \E p \in Paths, h \in Hashes :
    \E newid \in NewRowIds(files, next_id) :
        /\ (~HasRow(files, p)) => newid <= MaxRowId
        /\ LET r == upsert_file(files, next_id, FileMetadata(p, h, 0), newid)
           IN  /\ files' = r.files
               /\ next_id' = r.next_id
               /\ db_last' = DbCall("upsert_file", p, h, 0, r.id,
                                     files[p].id, 0)
               /\ first_id' = IF first_id[p] = 0
                              THEN [first_id EXCEPT ![p] = r.id]
                              ELSE first_id
        /\ UNCHANGED content

UpsertContent ==
    \E i \in FileIds, v \in Versions :
        /\ IF ForeignKeyOk(files, i)
           THEN /\ content' = upsert_content(content, i, v)
                /\ db_last' = DbCall("upsert_content", 0, v, i, 1, 0,
                                     content[i])
           ELSE /\ content' = content
                /\ db_last' = DbCall("upsert_content", 0, v, i, 0, 0, 0)
        /\ UNCHANGED <<files, next_id, first_id>>

NeedsReindex ==
    \E p \in Paths, h \in Hashes :
        /\ db_last' = DbCall("needs_reindex", p, h, 0,
                             IF needs_reindex(files, p, h) THEN 1 ELSE 0,
                             0, 0)
        /\ UNCHANGED <<files, content, next_id, first_id>>

DeleteFile ==
    \E p \in Paths :
        /\ files' = delete_file(files, p)
        /\ content' = on_delete_cascade(content, files')
        /\ db_last' = DbCall("delete_file", p, 0, 0, 1, files[p].id,
                             IF HasRow(files, p) THEN content[files[p].id]
                             ELSE 0)
        /\ first_id' = [first_id EXCEPT ![p] = 0]
        /\ UNCHANGED next_id

(***************************************************************************)
(* Claims about the metadata/content store                                 *)
(***************************************************************************)

\* C1 (stable ids): every upsert_file call for a path returns the id the
\* first upsert_file for that path returned, and the path's row keeps that
\* id, whatever other paths were upserted in between and whatever the new
\* hash is, as long as the path has not been deleted since.
C1_StableIds ==
    /\ \A p \in Paths : HasRow(files, p) => files[p].id = first_id[p]
    /\ db_last.op = "upsert_file" => db_last.ret = first_id[db_last.path]

\* C1 witness: a path first given id 1 is upserted again with another hash
\* after a second path was given a later id, and the call returns 1.
C1_Witness ==
    /\ db_last.op = "upsert_file"
    /\ db_last.before_id = 1
    /\ db_last.ret = 1
    /\ files[db_last.path].hash = 2
    /\ \E q \in Paths : q # db_last.path /\ files[q].id > 1

\* C6 (hash-gated reindex): needs_reindex(path, h) returns true exactly
\* when no File row has that path or the row's stored hash differs from h,
\* and the call leaves every table unchanged.
C6_NeedsReindex ==
    [][db_last'.op = "needs_reindex" =>
          /\ files' = files
          /\ content' = content
          /\ next_id' = next_id
          /\ (db_last'.ret = 1) <=>
                \/ files[db_last'.path].id = 0
                \/ files[db_last'.path].hash # db_last'.hash]_dbVars

\* C6 witness: needs_reindex answered false for a path whose row stores
\* the hash asked about.
C6_Witness ==
    /\ db_last.op = "needs_reindex"
    /\ db_last.ret = 0
    /\ files[db_last.path].id # 0
    /\ files[db_last.path].hash = db_last.hash

\* C7 (cascade delete): after delete_file(path) for a path whose File has
\* id i, get_file(i) and get_content(i) return nothing, count_files() is
\* one less, and the File and Content rows of every other path are
\* unchanged.
C7_CascadeDelete ==
    [][(db_last'.op = "delete_file" /\ db_last'.before_id # 0) =>
          LET p == db_last'.path
              i == db_last'.before_id
          IN  /\ get_file(files', i) = {}
              /\ get_content(content', i) = 0
              /\ count_files(files') = count_files(files) - 1
              /\ \A q \in Paths \ {p} :
                    /\ files'[q] = files[q]
                    /\ HasRow(files, q) =>
                          content'[files[q].id] = content[files[q].id]]_dbVars

\* C7 witness: a File that had a Content row was deleted while another
\* path keeps its File and Content rows.
C7_Witness ==
    /\ db_last.op = "delete_file"
    /\ db_last.before_id # 0
    /\ db_last.before_content # 0
    /\ content[db_last.before_id] = 0
    /\ \E q \in Paths : HasRow(files, q) /\ content[files[q].id] # 0

(***************************************************************************)
(* Vector store: VectorStore                                               *)
(***************************************************************************)
\* VectorStore.dimension, scaled down from 384 (text) / 512 (image).
Dimension == 2

VecIds == 1..NumVecIds
Comps == 0..MaxComp

\* Every vector of length n over Comps.
VectorsOfLen(n) == [1..n -> Comps]

\* What a caller may pass as an embedding: any length from 0 to Dimension+1.
Embeddings == UNION {VectorsOfLen(n) : n \in 0..(Dimension + 1)}

NoVector == <<>>

vs_keys(vecs) == {i \in DOMAIN vecs : vecs[i] # NoVector}

\* VectorStore::len
vs_len(vecs) == Cardinality(vs_keys(vecs))

\* VectorStore::upsert: [ok, vectors]
vs_upsert_unchecked(vecs, dim, id, emb) ==
    [ok |-> TRUE, vectors |-> [vecs EXCEPT ![id] = emb]]

vs_upsert(vecs, dim, id, emb) ==
    IF Len(emb) # dim
    THEN [ok |-> FALSE, vectors |-> vecs]
    ELSE [ok |-> TRUE, vectors |-> [vecs EXCEPT ![id] = emb]]

\* VectorStore::delete
vs_delete(vecs, id) == [vecs EXCEPT ![id] = NoVector]

RECURSIVE DotFrom(_, _, _)
DotFrom(a, b, i) ==
    IF i > Len(a) \/ i > Len(b) THEN 0
    ELSE a[i] * b[i] + DotFrom(a, b, i + 1)

\* cosine_similarity: a.iter().zip(b.iter()).map(|(x, y)| x * y).sum()
cosine_similarity(a, b) == DotFrom(a, b, 1)

\* The place a stable descending sort gives x in an already sorted list:
\* before the first element whose score is smaller.
RECURSIVE InsertDesc(_, _)
InsertDesc(sorted, x) ==
    IF sorted = <<>> THEN <<x>>
    ELSE IF Head(sorted)[2] < x[2] THEN <<x>> \o sorted
    ELSE <<Head(sorted)>> \o InsertDesc(Tail(sorted), x)

RECURSIVE InsertAsc(_, _)
InsertAsc(sorted, x) ==
    IF sorted = <<>> THEN <<x>>
    ELSE IF Head(sorted)[2] > x[2] THEN <<x>> \o sorted
    ELSE <<Head(sorted)>> \o InsertAsc(Tail(sorted), x)

RECURSIVE SortAscFrom(_, _, _)
SortAscFrom(s, i, acc) ==
    IF i > Len(s) THEN acc ELSE SortAscFrom(s, i + 1, InsertAsc(acc, s[i]))

RECURSIVE SortDescFrom(_, _, _)
SortDescFrom(s, i, acc) ==
    IF i > Len(s) THEN acc ELSE SortDescFrom(s, i + 1, InsertDesc(acc, s[i]))

\* sort_by(|a, b| b.1.partial_cmp(&a.1).unwrap_or(Equal)): stable, descending
sort_by_score_ascending(s) == SortAscFrom(s, 1, <<>>)

sort_by_score_desc(s) == SortDescFrom(s, 1, <<>>)

\* Vec::truncate
truncate(s, n) == SubSeq(s, 1, Min(n, Len(s)))

\* The orders in which a HashMap with key set S may be iterated.
IterOrders(S) ==
    {o \in [1..Cardinality(S) -> S] : \A i, j \in DOMAIN o : i # j => o[i] # o[j]}

\* VectorStore::search, for one iteration order of the map
vs_search(vecs, q, limit, order) ==
    truncate(
        sort_by_score_desc(
            [n \in DOMAIN order |->
                <<order[n], cosine_similarity(q, vecs[order[n]])>>]),
        limit)

VsCall(op, id, vec, k, ok, out) ==
    [op |-> op, id |-> id, vec |-> vec, k |-> k, ok |-> ok, out |-> out]

VsInit ==
    /\ vs_vectors = [i \in VecIds |-> NoVector]
    /\ vs_last = VsCall("new", 0, <<>>, 0, TRUE, <<>>)

VsUpsert ==
    \E i \in VecIds, e \in Embeddings :
        LET r == vs_upsert(vs_vectors, Dimension, i, e)
        IN  /\ vs_vectors' = r.vectors
            /\ vs_last' = VsCall("upsert", i, e, 0, r.ok, <<>>)

VsDelete ==
    \E i \in VecIds :
        /\ vs_vectors' = vs_delete(vs_vectors, i)
        /\ vs_last' = VsCall("delete", i, <<>>, 0, TRUE, <<>>)

VsSearch ==
    \E q \in Embeddings, k \in 0..(NumVecIds + 1) :
        /\ IF Len(q) # Dimension
           THEN vs_last' = VsCall("search", 0, q, k, FALSE, <<>>)
           ELSE \E order \in IterOrders(vs_keys(vs_vectors)) :
                    vs_last' = VsCall("search", 0, q, k, TRUE,
                                      vs_search(vs_vectors, q, k, order))
        /\ UNCHANGED vs_vectors

(***************************************************************************)
(* VectorStore::save and VectorStore::load                                 *)
(*                                                                         *)
(* save writes serde_json::to_string of {dimension, vectors}; load parses  *)
(* it back.  serde_json writes a finite f32 as the shortest decimal that   *)
(* reads back as the same f32, and a non-finite one (NaN, +-inf) as null,  *)
(* which does not parse as an f32.  An i64 key is written as a decimal     *)
(* string and read back as the same i64.                                   *)
(***************************************************************************)
\* A component that is not a finite number (NaN or an infinity); the
\* finite ones are the numbers from 0 up.
NonFinite == -1

F32s == Comps \cup {NonFinite}

\* What upsert accepts: any vector of the store's dimension
F32Vectors == [1..Dimension -> F32s]

\* serde_json's Serializer::serialize_f32
json_f32(c) ==
    IF c = NonFinite THEN [null |-> TRUE, num |-> 0]
    ELSE [null |-> FALSE, num |-> c]

json_vec(v) == [n \in DOMAIN v |-> json_f32(v[n])]

\* VectorStore::save: the file written
vs_save(vecs, dim) ==
    [exists |-> TRUE, written |-> "all", dimension |-> dim,
     vectors |-> [i \in DOMAIN vecs |-> json_vec(vecs[i])]]

\* serde_json::from_str needs the whole document, and its f32 deserializer
\* accepts a number only
JsonParses(file) ==
    /\ file.written = "all"
    /\ \A i \in DOMAIN file.vectors :
          \A n \in DOMAIN file.vectors[i] : ~file.vectors[i][n].null

\* VectorStore::load: [ok, dimension, vectors]
vs_load(file) ==
    IF ~file.exists \/ ~JsonParses(file)
    THEN [ok |-> FALSE, dimension |-> 0,
          vectors |-> [i \in DOMAIN file.vectors |-> NoVector]]
    ELSE [ok |-> TRUE, dimension |-> file.dimension,
          vectors |-> [i \in DOMAIN file.vectors |->
                          [n \in DOMAIN file.vectors[i] |->
                              file.vectors[i][n].num]]]

\* No file written yet
NoFile(ids) ==
    [exists |-> FALSE, written |-> "none", dimension |-> 0,
     vectors |-> [i \in ids |-> NoVector]]

\* fs::write(path, json) is File::create, which truncates the file in
\* place, and write_all, which writes the bytes with one or more writes.
\* The file right after File::create:
fs_create(file) == [NoFile(DOMAIN file.vectors) EXCEPT !.exists = TRUE]

\* The file when only a part of the bytes of doc has been written
fs_write_part(doc) == [doc EXCEPT !.written = "part"]

\* Where a save is: pc is "idle", "created", "writing" or "failed"; prev
\* is the file as it was before File::create
Writer(pc, prev) == [pc |-> pc, prev |-> prev]

FileInit ==
    /\ vs_file = NoFile(VecIds)
    /\ wr = Writer("idle", NoFile(VecIds))

SvUpsert ==
    \E i \in VecIds, e \in F32Vectors :
        LET r == vs_upsert(vs_vectors, Dimension, i, e)
        IN  /\ vs_vectors' = r.vectors
            /\ vs_last' = VsCall("upsert", i, e, 0, r.ok, <<>>)
            /\ UNCHANGED <<vs_file, wr>>

SvDelete == VsDelete /\ UNCHANGED <<vs_file, wr>>

SvSave ==
    /\ vs_file' = vs_save(vs_vectors, Dimension)
    /\ vs_last' = VsCall("save", 0, <<>>, 0, TRUE, <<>>)
    /\ UNCHANGED <<vs_vectors, wr>>

\* The record of a load holds the loaded store: k its dimension, out its map
SvLoad ==
    LET r == vs_load(vs_file)
    IN  /\ vs_last' = VsCall("load", 0, <<>>, r.dimension, r.ok, r.vectors)
        /\ UNCHANGED <<vs_vectors, vs_file, wr>>

(***************************************************************************)
(* save in one process, load in another                                    *)
(*                                                                         *)
(* An indexing run saves the store while a query loads the file.  The      *)
(* store is not changed while save holds its read lock.                    *)
(***************************************************************************)
WrUpsert ==
    \E i \in VecIds, e \in VectorsOfLen(Dimension) :
        /\ wr.pc \in {"idle", "failed"}
        /\ vs_vectors' = vs_upsert(vs_vectors, Dimension, i, e).vectors
        /\ vs_last' = VsCall("upsert", i, e, 0, TRUE, <<>>)
        /\ UNCHANGED <<vs_file, wr>>

\* save up to File::create: the document is serialized, the file truncated
WrCreate ==
    /\ wr.pc \in {"idle", "failed"}
    /\ vs_file' = fs_create(vs_file)
    /\ wr' = Writer("created", vs_file)
    /\ UNCHANGED vsVars

\* A write of write_all that takes only a part of the bytes
WrWritePart ==
    /\ wr.pc = "created"
    /\ vs_file' = fs_write_part(vs_save(vs_vectors, Dimension))
    /\ wr' = [wr EXCEPT !.pc = "writing"]
    /\ UNCHANGED vsVars

\* The last write of write_all; save returns Ok(())
WrWriteRest ==
    /\ wr.pc \in {"created", "writing"}
    /\ vs_file' = vs_save(vs_vectors, Dimension)
    /\ wr' = [wr EXCEPT !.pc = "idle"]
    /\ vs_last' = VsCall("save", 0, <<>>, 0, TRUE, <<>>)
    /\ UNCHANGED vs_vectors

\* A write fails (the disk is full, the process is stopped): save returns
\* Err or never returns, the file stays as the writes left it
WrFail ==
    /\ wr.pc \in {"created", "writing"}
    /\ wr' = [wr EXCEPT !.pc = "failed"]
    /\ vs_last' = VsCall("save", 0, <<>>, 0, FALSE, <<>>)
    /\ UNCHANGED <<vs_vectors, vs_file>>

\* VectorStore::load(path) in the other process
WrLoad == SvLoad

(***************************************************************************)
(* Claims about the vector store                                           *)
(***************************************************************************)

\* C5 (dimension guard): upsert(id, v) with a vector whose length is not the
\* store's dimension returns an error and leaves the map unchanged.
C5_DimensionGuard ==
    [][(vs_last'.op = "upsert" /\ Len(vs_last'.vec) # Dimension) =>
          /\ ~vs_last'.ok
          /\ vs_vectors' = vs_vectors]_vsVars

\* C5 witness: an upsert of a too-long vector failed on a store that holds
\* a vector for that id.
C5_Witness ==
    /\ vs_last.op = "upsert"
    /\ Len(vs_last.vec) = Dimension + 1
    /\ ~vs_last.ok
    /\ vs_vectors[vs_last.id] # NoVector

C11_SaveLoadRoundTrip ==
    [][(vs_last'.op = "load" /\ vs_file = vs_save(vs_vectors, Dimension)) =>
          /\ vs_last'.ok
          /\ vs_last'.k = Dimension
          /\ vs_last'.out = vs_vectors
          /\ \A q \in VectorsOfLen(Dimension), k \in 0..NumVecIds :
                \A order \in IterOrders(vs_keys(vs_vectors)) :
                    vs_search(vs_last'.out, q, k, order)
                        = vs_search(vs_vectors, q, k, order)
      ]_<<vsVars, fileVars>>

\* C22 (atomic save), as claimed: a load made while a save is replacing
\* a complete earlier file succeeds and yields either the earlier store or
\* the one being saved; and when a save fails midway, the file is what it
\* was before the save.
C22_AtomicSave ==
    [][/\ (/\ vs_last'.op = "load"
           /\ wr.pc \in {"created", "writing"}
           /\ vs_load(wr.prev).ok) =>
              /\ vs_last'.ok
              /\ vs_last'.out \in
                    {vs_load(wr.prev).vectors,
                     vs_load(vs_save(vs_vectors, Dimension)).vectors}
       /\ (wr'.pc = "failed" /\ wr.pc # "failed" /\ vs_load(wr.prev).ok) =>
              vs_file' = wr.prev
      ]_<<vsVars, fileVars>>

(***************************************************************************)
(* Inverted index: TantivyIndex                                            *)
(*                                                                         *)
(* The index is a bag of documents.  The writer's operations (delete_term, *)
(* add_document) take effect in the order given; idx_writer is the bag     *)
(* they produce, idx_committed the bag as of the writer's last commit and  *)
(* idx_reader the bag the reader's searcher was last reloaded to.          *)
(*                                                                         *)
(* A document's text is a content version (0: the synthetic text of an     *)
(* image document, which holds the file name only).  A query is one term:  *)
(* t > 0 is the word only content version t contains, t < 0 the name of    *)
(* path -t, which the filename field of that path's document contains.     *)
(***************************************************************************)
Doc(id, path, filename, text) ==
    [file_id |-> id, path |-> path, filename |-> filename, content |-> text]

NoDoc == Doc(0, 0, 0, 0)

NoDocs == [d \in {} |-> 0]

\* Number of documents in a bag
RECURSIVE BagSize(_)
BagSize(B) ==
    IF DOMAIN B = {} THEN 0
    ELSE LET d == CHOOSE x \in DOMAIN B : TRUE
         IN  B[d] + BagSize([x \in DOMAIN B \ {d} |-> B[x]])

DocIds(B) == {d.file_id : d \in DOMAIN B}

\* IndexWriter::delete_term(Term::from_field_i64(file_id_field, id))
delete_term_keeps_all(B, id) == B

delete_term(B, id) == [d \in {x \in DOMAIN B : x.file_id # id} |-> B[d]]

\* IndexWriter::add_document
add_document(B, doc) ==
    [d \in DOMAIN B \cup {doc} |->
        IF d = doc THEN (IF doc \in DOMAIN B THEN B[doc] + 1 ELSE 1)
        ELSE B[d]]

\* TantivyIndex::upsert_document: the writer's bag after the call
upsert_document_no_delete(B, id, path, filename, text) ==
    add_document(B, Doc(id, path, filename, text))

upsert_document(B, id, path, filename, text) ==
    add_document(delete_term(B, id), Doc(id, path, filename, text))

\* IndexWriter::commit: what is on disk afterwards
writer_commit(writer) == writer

\* IndexReader::reload: the searcher's snapshot afterwards
reader_reload(committed) == committed

\* QueryParser over {filename, content}: the documents a term matches
Matches(doc, term) ==
    \/ term > 0 /\ doc.content = term
    \/ term < 0 /\ doc.filename = -term

\* TantivyIndex::search: the hits for one BM25 ranking, which is the
\* library's; a hit carries file_id, path and filename of its document.
idx_search(reader, term, limit) ==
    LET matching == {d \in DOMAIN reader : Matches(d, term)}
    IN  {H \in SUBSET matching :
            Cardinality(H) = Min(limit, Cardinality(matching))}

\* TantivyIndex::num_docs
num_docs(reader) == BagSize(reader)

IdxCall(op, id, term, hits, n) ==
    [op |-> op, id |-> id, term |-> term, hits |-> hits, num_docs |-> n]

IdxIds == 1..NumIdxIds
Terms == Versions \cup {-i : i \in IdxIds}

\* TantivyIndex::new on a fresh directory
IdxInit ==
    /\ idx_writer = NoDocs
    /\ idx_committed = NoDocs
    /\ idx_reader = NoDocs
    /\ idx_last = IdxCall("new", 0, 0, {}, 0)
    /\ idx_at_commit = NoDocs
    /\ idx_batch = [i \in IdxIds |-> NoDoc]
    /\ idx_replaced = {}

IdxUpsertDocument ==
    \E i \in IdxIds, v \in Versions :
        /\ idx_writer' = upsert_document(idx_writer, i, i, i, v)
        /\ BagSize(idx_writer') <= NumIdxIds + 1
        /\ idx_last' = IdxCall("upsert_document", i, 0, {}, 0)
        /\ idx_batch' = [idx_batch EXCEPT ![i] = Doc(i, i, i, v)]
        /\ idx_replaced' =
              ((IF \A j \in IdxIds : idx_batch[j] = NoDoc THEN {}
                ELSE idx_replaced)
               \cup ({idx_batch[i]} \ {NoDoc})) \ {Doc(i, i, i, v)}
        /\ UNCHANGED <<idx_committed, idx_reader, idx_at_commit>>

IdxCommit ==
    /\ idx_committed' = writer_commit(idx_writer)
    /\ idx_reader' = reader_reload(idx_committed')
    /\ idx_last' = IdxCall("commit", 0, 0, {}, 0)
    /\ idx_at_commit' = idx_reader'
    /\ idx_batch' = [i \in IdxIds |-> NoDoc]
    /\ UNCHANGED <<idx_writer, idx_replaced>>

\* delete_term, then self.writer.commit() and self.reader.reload()
IdxDeleteDocument ==
    \E i \in IdxIds :
        /\ idx_writer' = delete_term(idx_writer, i)
        /\ idx_committed' = writer_commit(idx_writer')
        /\ idx_reader' = reader_reload(idx_committed')
        /\ idx_last' = IdxCall("delete_document", i, 0, {}, 0)
        /\ idx_batch' = [idx_batch EXCEPT ![i] = NoDoc]
        /\ UNCHANGED <<idx_at_commit, idx_replaced>>

IdxSearch ==
    \E t \in Terms, limit \in 0..NumIdxIds :
    \E hits \in idx_search(idx_reader, t, limit) :
        /\ idx_last' = IdxCall("search", limit, t, hits, 0)
        /\ UNCHANGED <<idx_writer, idx_committed, idx_reader, idx_at_commit,
                       idx_batch, idx_replaced>>

IdxNumDocs ==
    /\ idx_last' = IdxCall("num_docs", 0, 0, {}, num_docs(idx_reader))
    /\ UNCHANGED <<idx_writer, idx_committed, idx_reader, idx_at_commit,
                   idx_batch, idx_replaced>>

(***************************************************************************)
(* Claims about the inverted index                                         *)
(***************************************************************************)

\* C4 (commit visibility), as claimed: a search or num_docs issued after
\* upsert_document and before the next commit() observes nothing written
\* since the last commit() (every hit was in the index as of the last
\* commit() call, and num_docs counts no more than were there then), and
\* right after commit() returns the reader shows every document written
\* in the batch.
C4_CommitVisibility ==
    [][/\ idx_last'.op = "search" =>
            idx_last'.hits \subseteq DOMAIN idx_at_commit
       /\ idx_last'.op = "num_docs" =>
            idx_last'.num_docs <= BagSize(idx_at_commit)
       /\ idx_last'.op = "commit" =>
            \A i \in IdxIds :
                idx_batch[i] # NoDoc => idx_batch[i] \in DOMAIN idx_reader'
      ]_idxVars

\* The documents of the reader's snapshot that carry file_id i
DocsOf(reader, i) == {d \in DOMAIN reader : d.file_id = i}

\* C12 (upsert by id): right after commit() the index holds at most one
\* document per file_id; for an id written in the batch that document is
\* the one the last upsert_document for the id wrote; and a document that
\* a later upsert of the batch replaced is gone: no search, whatever the
\* term and the limit, returns it.
C12_UpsertById ==
    [][idx_last'.op = "commit" =>
          /\ \A i \in IdxIds :
                /\ Cardinality(DocsOf(idx_reader', i)) <= 1
                /\ \A d \in DocsOf(idx_reader', i) : idx_reader'[d] = 1
                /\ idx_batch[i] # NoDoc =>
                      DocsOf(idx_reader', i) = {idx_batch[i]}
          /\ \A d \in idx_replaced :
                \A t \in Terms, limit \in 0..NumIdxIds :
                \A hits \in idx_search(idx_reader', t, limit) :
                    d \notin hits
      ]_idxVars

\* C12 witness: a commit made visible a document of content version 2 for
\* an id whose document of version 1, written earlier in the same batch,
\* was replaced, while another id was written in between.
C12_Witness ==
    /\ idx_last.op = "commit"
    /\ Doc(1, 1, 1, 1) \in idx_replaced
    /\ Doc(1, 1, 1, 2) \in DOMAIN idx_reader
    /\ DocsOf(idx_reader, 2) # {}

Pending(writer, reader) == {d \in DOMAIN writer : d \notin DOMAIN reader}

\* C21 (commit() is the only reader boundary), as claimed: a call other
\* than commit() leaves every pending document invisible: a document that
\* upsert_document wrote and the reader did not show before the call is
\* not shown after it, to search or to num_docs.
C21_OnlyCommitPublishes ==
    [][idx_last'.op # "commit" =>
          \A d \in Pending(idx_writer, idx_reader) :
              /\ d \notin DOMAIN idx_reader'
              /\ \A t \in Terms, limit \in 0..NumIdxIds :
                 \A hits \in idx_search(idx_reader', t, limit) :
                     d \notin hits
      ]_idxVars

(***************************************************************************)
(* Hybrid retriever: reciprocal_rank_fusion and HybridSearch               *)
(***************************************************************************)
\* const K: f32 = 60.0
RRF_K == 60

\* Ids that occur in result lists.
RrfIds == 1..(MaxListLen + 1)

\* keyword_weight in tenths: 0.0, 0.3, 0.5, 0.7, 1.0
Weights10 == {0, 3, 5, 7, 10}

\* Scores are exact rationals w/10 * 1/(K + rank + 1), kept as integers by
\* scaling with 10 * RrfScale, RrfScale the product of the denominators.
RECURSIVE DenomProduct(_)
DenomProduct(r) ==
    IF r >= MaxListLen THEN 1 ELSE (RRF_K + r + 1) * DenomProduct(r + 1)

RrfScale == DenomProduct(0)

\* weight / (K + (rank as f32) + 1.0), rank 0-based
rrf_score_rank_from_one(w10, rank) == w10 * (RrfScale \div (RRF_K + rank + 2))

rrf_score(w10, rank) == w10 * (RrfScale \div (RRF_K + rank + 1))

\* A keyword hit as TantivyIndex::search returns it: the document's stored
\* path and filename, its BM25 score (higher first), no snippet.
KeywordHit(id, bm25) ==
    [file_id |-> id, path |-> <<"path", id>>, filename |-> <<"name", id>>,
     score |-> bm25, snippet |-> "None"]

\* Rankings without repeated ids: an index holds one document per file_id
\* and a vector store one vector per file_id.
Rankings ==
    {r \in UNION {[1..n -> RrfIds] : n \in 0..MaxListLen} :
        \A i, j \in DOMAIN r : i # j => r[i] # r[j]}

\* Fusion treats ids as opaque, so keyword rankings are taken up to
\* renaming: 1, 2, ..., n.
KeywordRankings == {[i \in 1..n |-> i] : n \in 0..MaxListLen}

KeywordHits(r) == [i \in DOMAIN r |-> KeywordHit(r[i], MaxListLen + 1 - i)]

SemanticHits(r) == [i \in DOMAIN r |-> <<r[i], MaxListLen + 1 - i>>]

\* *scores.entry(id).or_insert(0.0) += rrf_score, for list[i..]
RECURSIVE AddKeywordScores(_, _, _, _)
AddKeywordScores(scores, hits, w10, i) ==
    IF i > Len(hits) THEN scores
    ELSE LET id == hits[i].file_id
             old == IF id \in DOMAIN scores THEN scores[id] ELSE 0
         IN  AddKeywordScores(
                 [d \in DOMAIN scores \cup {id} |->
                     IF d = id THEN old + rrf_score(w10, i - 1) ELSE scores[d]],
                 hits, w10, i + 1)

RECURSIVE AddSemanticScores(_, _, _, _)
AddSemanticScores(scores, hits, w10, i) ==
    IF i > Len(hits) THEN scores
    ELSE LET id == hits[i][1]
             old == IF id \in DOMAIN scores THEN scores[id] ELSE 0
         IN  AddSemanticScores(
                 [d \in DOMAIN scores \cup {id} |->
                     IF d = id THEN old + rrf_score(w10, i - 1) ELSE scores[d]],
                 hits, w10, i + 1)

EmptyScores == [d \in {} |-> 0]

\* The HashMap reciprocal_rank_fusion builds.
rrf_scores(keyword_results, semantic_results, keyword_weight) ==
    LET semantic_weight == 10 - keyword_weight
    IN  AddSemanticScores(
            AddKeywordScores(EmptyScores, keyword_results, keyword_weight, 1),
            semantic_results, semantic_weight, 1)

\* reciprocal_rank_fusion, for one iteration order of the HashMap
reciprocal_rank_fusion(kw_results, sem_results, keyword_weight, limit, order) ==
    LET scores == rrf_scores(kw_results, sem_results, keyword_weight)
    IN  truncate(
            sort_by_score_desc([n \in DOMAIN order |->
                                   <<order[n], scores[order[n]]>>]),
            limit)

\* keyword_results.iter().find(|r| r.file_id == file_id)
FindHit(hits, id) ==
    LET at == {i \in DOMAIN hits : hits[i].file_id = id}
    IN  IF at = {} THEN 0 ELSE CHOOSE i \in at : \A j \in at : i <= j

\* The payload loop of hybrid_search over the fused list.
attach_payload(combined, keyword_results) ==
    [n \in DOMAIN combined |->
        LET id == combined[n][1]
            at == FindHit(keyword_results, id)
        IN  IF at # 0
            THEN [file_id |-> id, path |-> keyword_results[at].path,
                  filename |-> keyword_results[at].filename,
                  score |-> combined[n][2],
                  snippet |-> keyword_results[at].snippet]
            ELSE [file_id |-> id, path |-> <<"file_", id>>,
                  filename |-> <<"file_", id>>,
                  score |-> combined[n][2], snippet |-> "None"]]

\* HybridSearch::hybrid_search once both searches returned, for one
\* iteration order of the fusion's HashMap
hybrid_search(keyword_results, semantic_results, limit, kw_weight, order) ==
    IF semantic_results = <<>>
    THEN truncate(keyword_results, limit)
    ELSE attach_payload(
             reciprocal_rank_fusion(keyword_results, semantic_results,
                                    kw_weight, limit, order),
             keyword_results)

HitIds(hits) == {hits[i].file_id : i \in DOMAIN hits}
PairIds(pairs) == {pairs[i][1] : i \in DOMAIN pairs}

RrfCall(op, kw, sem, w10, limit, out, results) ==
    [op |-> op, keyword |-> kw, semantic |-> sem, weight |-> w10,
     limit |-> limit, out |-> out, results |-> results]

RrfInput(kr, sr, w10) == [keyword |-> kr, semantic |-> sr, weight |-> w10]

\* No call made yet, and the inputs of the call to come.
RrfIdle == rrf_last = RrfCall("new", <<>>, <<>>, 0, 0, <<>>, <<>>)

RrfInit ==
    /\ RrfIdle
    /\ rrf_in \in {RrfInput(kr, sr, w) :
                     kr \in KeywordRankings, sr \in Rankings, w \in Weights10}

\* The metadata store the search runs over: empty, or holding the File
\* record that indexing wrote for each path, with the path's number as id
IndexedFiles ==
    [p \in Paths |->
        upsert_file([q \in Paths |-> NoRow], p,
                    FileMetadata(p, 1, 1), p).files[p]]

RrfDbInit ==
    /\ files \in {[p \in Paths |-> NoRow], IndexedFiles}
    /\ content = [i \in FileIds |-> 0]
    /\ next_id = MaxOf(RowIds(files)) + 1
    /\ db_last = DbCall("new", 0, 0, 0, 0, 0, 0)
    /\ first_id = [p \in Paths |-> files[p].id]

\* A direct call of reciprocal_rank_fusion on the drawn inputs.
Fuse ==
    /\ rrf_last.op = "new"
    /\ LET kw == KeywordHits(rrf_in.keyword)
           sem == SemanticHits(rrf_in.semantic)
       IN  \E order \in IterOrders(HitIds(kw) \cup PairIds(sem)),
              limit \in 0..(MaxListLen + 2) :
               rrf_last' = RrfCall("fuse", kw, sem, rrf_in.weight, limit,
                                   reciprocal_rank_fusion(kw, sem,
                                       rrf_in.weight, limit, order),
                                   <<>>)
    /\ UNCHANGED rrf_in

\* hybrid_search on the drawn rankings: both stores are searched with
\* limit * 2, then the two result lists are fused.
HybridSearch ==
    /\ rrf_last.op = "new"
    /\ \E limit \in 0..MaxListLen :
        LET kw == truncate(KeywordHits(rrf_in.keyword), limit * 2)
            sem == truncate(SemanticHits(rrf_in.semantic), limit * 2)
        IN  \E order \in IterOrders(HitIds(kw) \cup PairIds(sem)) :
                rrf_last' = RrfCall("hybrid", kw, sem, rrf_in.weight, limit,
                                    <<>>,
                                    hybrid_search(kw, sem, limit,
                                                  rrf_in.weight, order))
    /\ UNCHANGED rrf_in

(***************************************************************************)
(* Claims about fusion                                                     *)
(***************************************************************************)
HitIdSeq(hits) == [i \in DOMAIN hits |-> hits[i].file_id]
PairIdSeq(pairs) == [i \in DOMAIN pairs |-> pairs[i][1]]

\* 1-based position of id d in a sequence of ids (0: absent)
PosIn(ids, d) ==
    IF \E i \in DOMAIN ids : ids[i] = d
    THEN CHOOSE i \in DOMAIN ids : ids[i] = d
    ELSE 0

\* The score the claim gives id d: over the lists d occurs in, the sum of
\* w_list / (60 + r + 1), r the 0-based rank (scaled by 10 * RrfScale).
ClaimedScore(kwIds, semIds, w10, d) ==
    LET pk == PosIn(kwIds, d)
        ps == PosIn(semIds, d)
    IN  (IF pk = 0 THEN 0 ELSE w10 * (RrfScale \div (60 + (pk - 1) + 1)))
      + (IF ps = 0 THEN 0
         ELSE (10 - w10) * (RrfScale \div (60 + (ps - 1) + 1)))

\* C8 (RRF scoring): the fused list holds each id of the union of the two
\* lists at most once, min(limit, |union|) of them, each with the claimed
\* summed score, in non-increasing score order, no omitted id scoring above
\* a listed one; for keyword ids [1,2,3], semantic ids [2,4,1], weight 0.5
\* and limit >= 4 the order is 2, 1, 4, 3.
C8_RrfScoring ==
    rrf_last.op = "fuse" =>
        LET out == rrf_last.out
            kwIds == HitIdSeq(rrf_last.keyword)
            semIds == PairIdSeq(rrf_last.semantic)
            w == rrf_last.weight
            union == HitIds(rrf_last.keyword) \cup PairIds(rrf_last.semantic)
            got == PairIds(out)
        IN  /\ Len(out) = Min(rrf_last.limit, Cardinality(union))
            /\ Cardinality(got) = Len(out)
            /\ got \subseteq union
            /\ \A n \in DOMAIN out :
                  out[n][2] = ClaimedScore(kwIds, semIds, w, out[n][1])
            /\ \A m, n \in DOMAIN out : m < n => out[m][2] >= out[n][2]
            /\ \A d \in union \ got : \A n \in DOMAIN out :
                  ClaimedScore(kwIds, semIds, w, d) <= out[n][2]
            /\ (kwIds = <<1, 2, 3>> /\ semIds = <<2, 4, 1>> /\ w = 5
                  /\ rrf_last.limit >= 4)
                 => PairIdSeq(out) = <<2, 1, 4, 3>>

\* C8 witness: scenario E2 was fused with limit 4 and gave 2, 1, 4, 3.
C8_Witness ==
    /\ rrf_last.op = "fuse"
    /\ HitIdSeq(rrf_last.keyword) = <<1, 2, 3>>
    /\ PairIdSeq(rrf_last.semantic) = <<2, 4, 1>>
    /\ rrf_last.weight = 5
    /\ rrf_last.limit = 4
    /\ PairIdSeq(rrf_last.out) = <<2, 1, 4, 3>>

\* C9 (RRF mass conservation), as claimed: for every weight and limit, two
\* empty lists fuse to the empty list; when exactly one list is non-empty
\* the output lists that list's ids in its order, truncated to limit; and
\* hybrid_search with an empty semantic list returns the keyword hits
\* verbatim, truncated to limit.
C9_MassConservation ==
    LET kw == rrf_last.keyword
        sem == rrf_last.semantic
        outIds == IF rrf_last.op = "fuse" THEN PairIdSeq(rrf_last.out)
                  ELSE HitIdSeq(rrf_last.results)
    IN  rrf_last.op \in {"fuse", "hybrid"} =>
            /\ (kw = <<>> /\ sem = <<>>) => outIds = <<>>
            /\ (kw # <<>> /\ sem = <<>>) =>
                  outIds = truncate(HitIdSeq(kw), rrf_last.limit)
            /\ (kw = <<>> /\ sem # <<>>) =>
                  outIds = truncate(PairIdSeq(sem), rrf_last.limit)
            /\ (rrf_last.op = "hybrid" /\ sem = <<>>) =>
                  rrf_last.results = truncate(kw, rrf_last.limit)

\* C24 (payload re-attachment), as claimed: a hybrid search with semantic
\* hits returns one result per id of the fused list, in fused order; the
\* result of an id found in the keyword hits carries that hit's path and
\* filename; the result of an id found only in the semantic list carries
\* the path and filename of its File record when the metadata store has
\* one, and the placeholder only when it has none.
C24_PayloadReattach ==
    (rrf_last.op = "hybrid" /\ rrf_last.semantic # <<>>) =>
        LET kw == rrf_last.keyword
            sem == rrf_last.semantic
            res == rrf_last.results
        IN  /\ \E order \in IterOrders(HitIds(kw) \cup PairIds(sem)) :
                  [n \in DOMAIN res |-> <<res[n].file_id, res[n].score>>]
                      = reciprocal_rank_fusion(kw, sem, rrf_last.weight,
                                               rrf_last.limit, order)
            /\ \A n \in DOMAIN res :
                  LET id == res[n].file_id
                      at == FindHit(kw, id)
                  IN  /\ at # 0 =>
                            /\ res[n].path = kw[at].path
                            /\ res[n].filename = kw[at].filename
                      /\ (at = 0 /\ get_file(files, id) # {}) =>
                            /\ res[n].path = KeywordHit(id, 0).path
                            /\ res[n].filename = KeywordHit(id, 0).filename
                      /\ (at = 0 /\ get_file(files, id) = {}) =>
                            /\ res[n].path = <<"file_", id>>
                            /\ res[n].filename = <<"file_", id>>

(***************************************************************************)
(* Snippets: extract_snippet                                               *)
(*                                                                         *)
(* A str is its UTF-8 bytes.  The alphabet has the one-byte characters     *)
(* a, A (whose lowercase is a) and b, and one two-byte character, written  *)
(* here as the bytes e1 e2.  String positions and lengths are in bytes, as *)
(* str::find, str::len and the slice &text[start..end] have them; a slice  *)
(* whose start or end lies inside a character panics.                      *)
(***************************************************************************)
Utf8Bytes == {"a", "A", "b", "e1", "e2"}

\* The byte sequences that are valid UTF-8
IsStr(s) ==
    \A n \in DOMAIN s :
        /\ s[n] = "e1" => (n < Len(s) /\ s[n + 1] = "e2")
        /\ s[n] = "e2" => (n > 1 /\ s[n - 1] = "e1")

StrsUpTo(len) ==
    {s \in UNION {[1..n -> Utf8Bytes] : n \in 0..len} : IsStr(s)}

\* str::to_lowercase
to_lowercase(s) == [n \in DOMAIN s |-> IF s[n] = "A" THEN "a" ELSE s[n]]

\* needle occurs in hay at byte offset pos (0-based)
OccursAt(hay, needle, pos) ==
    /\ pos + Len(needle) <= Len(hay)
    /\ \A n \in DOMAIN needle : hay[pos + n] = needle[n]

\* str::find: the first byte offset of needle in hay, or -1 for None
find(hay, needle) ==
    IF \E pos \in 0..Len(hay) : OccursAt(hay, needle, pos)
    THEN CHOOSE pos \in 0..Len(hay) :
            /\ OccursAt(hay, needle, pos)
            /\ \A q \in 0..(pos - 1) : ~OccursAt(hay, needle, q)
    ELSE -1

\* str::is_char_boundary
is_char_boundary(s, i) ==
    \/ i = 0
    \/ i = Len(s)
    \/ (i < Len(s) /\ s[i + 1] # "e2")

\* &s[start..end] panics unless start <= end <= len and both are boundaries
SliceOk(s, start, end) ==
    /\ start <= end
    /\ end <= Len(s)
    /\ is_char_boundary(s, start)
    /\ is_char_boundary(s, end)

slice(s, start, end) == SubSeq(s, start + 1, end)

Ellipsis == <<".", ".", ".">>

Panic == [panics |-> TRUE, value |-> <<>>]

Some(str) == [panics |-> FALSE, value |-> str]

\* usize::saturating_sub
saturating_sub(a, b) == IF a >= b THEN a - b ELSE 0

\* extract_snippet(text, query, context_chars)
extract_snippet(text, query, context_chars) ==
    LET query_lower == to_lowercase(query)
        text_lower == to_lowercase(text)
        pos == find(text_lower, query_lower)
    IN  IF pos # -1
        THEN LET start == saturating_sub(pos, context_chars)
                 end == Min(pos + Len(query) + context_chars, Len(text))
             IN  IF ~SliceOk(text, start, end) THEN Panic
                 ELSE Some((IF start > 0 THEN Ellipsis ELSE <<>>)
                           \o slice(text, start, end)
                           \o (IF end < Len(text) THEN Ellipsis ELSE <<>>))
        ELSE IF Len(text) > context_chars * 2
             THEN IF ~SliceOk(text, 0, context_chars * 2) THEN Panic
                  ELSE Some(slice(text, 0, context_chars * 2) \o Ellipsis)
             ELSE Some(text)

SnipInput(text, query, r) == [text |-> text, query |-> query, radius |-> r]

SnipCall(op, result) == [op |-> op, result |-> result]

\* No call made
SnipNone ==
    /\ snip_in = SnipInput(<<>>, <<>>, 0)
    /\ snip_last = SnipCall("new", Some(<<>>))

SnipInit ==
    /\ snip_in \in {SnipInput(t, q, r) : t \in StrsUpTo(MaxTextLen),
                                         q \in StrsUpTo(MaxQueryLen),
                                         r \in 0..MaxRadius}
    /\ snip_last = SnipCall("new", Some(<<>>))

ExtractSnippet ==
    /\ snip_last.op = "new"
    /\ snip_last' = SnipCall("extract_snippet",
                             extract_snippet(snip_in.text, snip_in.query,
                                             snip_in.radius))
    /\ UNCHANGED snip_in

(***************************************************************************)
(* Claims about snippets                                                   *)
(***************************************************************************)

\* C14 (snippet laws), as claimed: for every text, query and radius r the
\* call returns a value and does not abort; when the query occurs in the
\* text case-insensitively, first at pos, the value is
\* text[max(0, pos-r) .. min(|text|, pos+|query|+r)] with an ellipsis on
\* each side that is not at a text boundary, and so contains the query
\* case-insensitively; when it does not occur the value is the text if
\* |text| <= 2r and else its first 2r characters followed by an ellipsis.
C14_SnippetLaws ==
    snip_last.op = "extract_snippet" =>
        LET text == snip_in.text
            query == snip_in.query
            r == snip_in.radius
            res == snip_last.result
            pos == find(to_lowercase(text), to_lowercase(query))
            lo == Max(0, pos - r)
            hi == Min(Len(text), pos + Len(query) + r)
        IN  /\ ~res.panics
            /\ pos # -1 =>
                  /\ res.value = (IF lo > 0 THEN Ellipsis ELSE <<>>)
                                    \o SubSeq(text, lo + 1, hi)
                                    \o (IF hi < Len(text) THEN Ellipsis
                                        ELSE <<>>)
                  /\ find(to_lowercase(res.value), to_lowercase(query)) # -1
            /\ pos = -1 =>
                  res.value = IF Len(text) <= 2 * r THEN text
                              ELSE SubSeq(text, 1, 2 * r) \o Ellipsis

(***************************************************************************)
(* Indexing pipeline: index_folder                                         *)
(*                                                                         *)
(* The files under the indexed root are disk: path -> content version      *)
(* (0: no such file; Corrupt: bytes that are neither valid UTF-8 nor a     *)
(* decodable image; Unreadable: a file that is listed but whose bytes      *)
(* cannot be read; Unembeddable: a text the embedding model returns an     *)
(* error for).  One run is StartRun, one IndexFile per discovered file,    *)
(* FinishRun, unless a store or index call fails first (AbortRun).         *)
(* Between runs the files may be edited (EditFile) and a File may be       *)
(* deleted from the metadata store (DeleteRequest).                        *)
(***************************************************************************)
Corrupt == NumVersions + 1

Unreadable == NumVersions + 2

Unembeddable == NumVersions + 3

DiskValues == 0..Unembeddable

\* VectorStore::new(384) and VectorStore::new(512), scaled down
TextDimension == Dimension
ImageDimension == Dimension + 1

NoVectors == [i \in FileIds |-> NoVector]

\* compute_file_hash: SHA-256 of the bytes
compute_file_hash(d) == d

\* FileWalker::walk: the files present, in directory order
RECURSIVE walk_from(_, _)
walk_from(d, p) ==
    IF p > NumPaths THEN <<>>
    ELSE (IF d[p] # 0 THEN <<p>> ELSE <<>>) \o walk_from(d, p + 1)

walk(d) == walk_from(d, 1)

\* text::extract_text: [ok, text]
extract_text(kind, d) ==
    IF kind \in {"Image", "Xlsx", "Archive"} \/ d = Corrupt
    THEN [ok |-> FALSE, text |-> 0]
    ELSE [ok |-> TRUE, text |-> d]

\* metadata::extract_metadata: [ok, metadata]; fs::metadata and the fs::read
\* of compute_file_hash fail on a file that is gone or cannot be read
extract_metadata(p, d, now) ==
    IF d \in {0, Unreadable}
    THEN [ok |-> FALSE, metadata |-> FileMetadata(p, 0, 0)]
    ELSE [ok |-> TRUE, metadata |-> FileMetadata(p, compute_file_hash(d), now)]

\* EmbeddingModel::embed on the text of version v: [ok, embedding]
embed(v) ==
    IF v = Unembeddable
    THEN [ok |-> FALSE, embedding |-> NoVector]
    ELSE [ok |-> TRUE, embedding |-> [i \in 1..TextDimension |-> v]]

\* ImageEmbedding::embed_image on the file with bytes d: [ok, embedding]
embed_image(d) ==
    IF d \in {Corrupt, Unembeddable}
    THEN [ok |-> FALSE, embedding |-> NoVector]
    ELSE [ok |-> TRUE, embedding |-> [i \in 1..ImageDimension |-> d]]

\* The stores one run works on
Stores(fs, nid, ct, writer, vecs, ivecs, indexed, skipped) ==
    [files |-> fs, next_id |-> nid, content |-> ct, writer |-> writer,
     vectors |-> vecs, image_vectors |-> ivecs,
     indexed_count |-> indexed, skipped_count |-> skipped]

\* A loop body that leaves a file whose metadata cannot be read uncounted
index_file_skip_uncounted(st, p, d, text_model, image_model, now, newid) ==
    LET m == extract_metadata(p, d, now) IN
    IF ~m.ok THEN st
    ELSE LET r == upsert_file(st.files, st.next_id, m.metadata, newid)
         IN  [st EXCEPT !.files = r.files, !.next_id = r.next_id,
                        !.indexed_count = @ + 1]

\* The body of the loop `for disc_file in discovered` for path p, whose
\* bytes are d, in a run with the given models loaded; now is the time
\* extract_metadata reads and newid the rowid a new File row would get.
index_file(st, p, d, text_model, image_model, now, newid) ==
    LET m == extract_metadata(p, d, now) IN
    IF ~m.ok
    THEN \* Err(_) => { skipped_count += 1; continue; }
         [st EXCEPT !.skipped_count = @ + 1]
    ELSE
    LET kind == detect_file_type(p)
        r == upsert_file(st.files, st.next_id, m.metadata, newid)
        file_id == r.id
        s1 == [st EXCEPT !.files = r.files, !.next_id = r.next_id]
    IN  IF kind = "Image"
        THEN IF image_model
             THEN LET e == embed_image(d)
                  IN  IF e.ok
                      THEN [s1 EXCEPT
                              !.image_vectors =
                                  vs_upsert(@, ImageDimension, file_id,
                                            e.embedding).vectors,
                              !.writer =
                                  upsert_document(@, file_id, p, p, 0),
                              !.indexed_count = @ + 1]
                      ELSE [s1 EXCEPT !.skipped_count = @ + 1]
             ELSE [s1 EXCEPT
                     !.writer = upsert_document(@, file_id, p, p, 0),
                     !.indexed_count = @ + 1]
        ELSE LET x == extract_text(kind, d)
             IN  IF x.ok
                 THEN [s1 EXCEPT
                         !.content = upsert_content(@, file_id, x.text),
                         !.writer =
                             upsert_document(@, file_id, p, p, x.text),
                         !.vectors =
                             \* if let Ok(embedding) = model.embed(..)
                             IF text_model /\ embed(x.text).ok
                             THEN vs_upsert(@, TextDimension, file_id,
                                            embed(x.text).embedding).vectors
                             ELSE @,
                         !.indexed_count = @ + 1]
                 ELSE [s1 EXCEPT !.skipped_count = @ + 1]

\* vectors.json / image_vectors.json before any save
NoJson == NoFile(FileIds)

\* What a finished run leaves, as the next run is compared with it
RunSummary(valid, repeat, semantic, clip, fs, reader, vecs, ivecs, vj, ivj) ==
    [valid |-> valid, repeat |-> repeat, semantic |-> semantic, clip |-> clip,
     count_files |-> count_files(fs),
     num_docs |-> num_docs(reader),
     vectors_len |-> vs_len(vecs),
     image_vectors_len |-> vs_len(ivecs),
     saved_len |-> vs_len(vj.vectors),
     saved_image_len |-> vs_len(ivj.vectors),
     ids |-> [p \in Paths |-> fs[p].id]]

PipeIdle(runs, edits, deletes) ==
    [pc |-> "idle", semantic |-> FALSE, clip |-> FALSE, queue |-> <<>>,
     indexed_count |-> 0, skipped_count |-> 0, changed |-> {},
     runs |-> runs, edits |-> edits, deletes |-> deletes, faults |-> 0]

PipeInit ==
    /\ disk \in [Paths -> DiskValues]
    /\ pipe = PipeIdle(0, 0, 0)
    /\ run_vectors = NoVectors
    /\ run_image_vectors = NoVectors
    /\ vectors_json = NoJson
    /\ image_vectors_json = NoJson
    /\ last_run = RunSummary(FALSE, FALSE, FALSE, FALSE, files, idx_reader,
                             NoVectors, NoVectors, NoJson, NoJson)
    /\ quiet = TRUE

\* No run is in progress and none has been made
PipeNone ==
    /\ disk = [p \in Paths |-> 0]
    /\ pipe = PipeIdle(0, 0, 0)
    /\ run_vectors = NoVectors
    /\ run_image_vectors = NoVectors
    /\ vectors_json = NoJson
    /\ image_vectors_json = NoJson
    /\ last_run = RunSummary(FALSE, FALSE, FALSE, FALSE, files, idx_reader,
                             NoVectors, NoVectors, NoJson, NoJson)
    /\ quiet = TRUE

\* index_folder up to the loop: the stores are opened, the vector stores
\* created empty, the models loaded (the CLIP model only with --semantic
\* and only where clip_vision.onnx is found) and the files discovered.
StartRun ==
    \E semantic \in BOOLEAN, clip \in BOOLEAN :
        /\ pipe.pc # "indexing"
        /\ pipe.runs < MaxRuns
        /\ clip => semantic
        /\ pipe' = [pipe EXCEPT !.pc = "indexing", !.semantic = semantic,
                                !.clip = clip, !.queue = walk(disk),
                                !.indexed_count = 0, !.skipped_count = 0,
                                !.changed = {}, !.runs = @ + 1]
        /\ idx_writer' = idx_committed
        /\ idx_reader' = reader_reload(idx_committed)
        /\ idx_last' = IdxCall("new", 0, 0, {}, 0)
        /\ run_vectors' = NoVectors
        /\ run_image_vectors' = NoVectors
        /\ UNCHANGED <<dbVars, idx_committed, idx_at_commit, idx_batch,
                       idx_replaced, disk,
                       vectors_json, image_vectors_json, last_run, quiet>>

\* The rescan finds path p, whose bytes are d, with a File row whose hash
\* differs from the file's SHA-256
Diverged(fs, p, d) ==
    /\ extract_metadata(p, d, 0).ok
    /\ HasRow(fs, p)
    /\ fs[p].hash # compute_file_hash(d)

\* One iteration of the loop
IndexFile ==
    /\ pipe.pc = "indexing"
    /\ pipe.queue # <<>>
    /\ LET p == Head(pipe.queue) IN
       \E newid \in NewRowIds(files, next_id) :
        /\ (extract_metadata(p, disk[p], pipe.runs).ok /\ ~HasRow(files, p))
              => newid <= MaxRowId
        /\ LET st == index_file(
                        Stores(files, next_id, content, idx_writer,
                               run_vectors, run_image_vectors,
                               pipe.indexed_count, pipe.skipped_count),
                        p, disk[p], pipe.semantic, pipe.clip, pipe.runs,
                        newid)
           IN  /\ files' = st.files
               /\ next_id' = st.next_id
               /\ content' = st.content
               /\ idx_writer' = st.writer
               /\ run_vectors' = st.vectors
               /\ run_image_vectors' = st.image_vectors
               /\ pipe' = [pipe EXCEPT !.queue = Tail(@),
                                       !.indexed_count = st.indexed_count,
                                       !.skipped_count = st.skipped_count,
                                       !.changed =
                                           IF Diverged(files, p, disk[p])
                                           THEN @ \cup {p} ELSE @]
               /\ first_id' = IF first_id[p] = 0
                              THEN [first_id EXCEPT ![p] = st.files[p].id]
                              ELSE first_id
               /\ db_last' = IF ~extract_metadata(p, disk[p], pipe.runs).ok
                             THEN db_last
                             ELSE DbCall("upsert_file", p,
                                         compute_file_hash(disk[p]), 0,
                                         st.files[p].id, files[p].id, 0)
        /\ UNCHANGED <<idx_committed, idx_reader, idx_last, idx_at_commit,
                       idx_batch, idx_replaced, disk, vectors_json,
                       image_vectors_json,
                       last_run, quiet>>

\* index_folder after the loop: tantivy_index.commit(), then the saves
FinishRun ==
    /\ pipe.pc = "indexing"
    /\ pipe.queue = <<>>
    /\ idx_committed' = writer_commit(idx_writer)
    /\ idx_reader' = reader_reload(idx_committed')
    /\ idx_last' = IdxCall("commit", 0, 0, {}, 0)
    /\ vectors_json' = IF pipe.semantic THEN vs_save(run_vectors, TextDimension)
                       ELSE vectors_json
    /\ image_vectors_json' =
          IF pipe.clip /\ vs_len(run_image_vectors) # 0
          THEN vs_save(run_image_vectors, ImageDimension)
          ELSE image_vectors_json
    /\ last_run' = RunSummary(TRUE,
                              /\ last_run.valid
                              /\ quiet
                              /\ last_run.semantic = pipe.semantic
                              /\ last_run.clip = pipe.clip,
                              pipe.semantic, pipe.clip, files, idx_reader',
                              run_vectors, run_image_vectors, vectors_json',
                              image_vectors_json')
    /\ quiet' = TRUE
    /\ pipe' = [pipe EXCEPT !.pc = "idle"]
    /\ UNCHANGED <<dbVars, idx_writer, idx_at_commit, idx_batch,
                   idx_replaced, disk,
                   run_vectors, run_image_vectors>>

\* A store or index call of the run returns Err and `?` returns it from
\* index_folder: db.upsert_file for the next file, or tantivy_index.commit()
\* after the loop.  The writer is dropped with its uncommitted operations,
\* the vector stores of the run are dropped unsaved.
AbortRun ==
    /\ pipe.pc = "indexing"
    /\ pipe.faults < MaxFaults
    /\ pipe' = [pipe EXCEPT !.pc = "failed", !.queue = <<>>, !.faults = @ + 1]
    /\ idx_writer' = idx_committed
    /\ run_vectors' = NoVectors
    /\ run_image_vectors' = NoVectors
    /\ quiet' = FALSE
    /\ UNCHANGED <<dbVars, idx_committed, idx_reader, idx_last, idx_at_commit,
                   idx_batch, idx_replaced, disk, vectors_json,
                   image_vectors_json, last_run>>

\* Someone writes, replaces or removes a file under the root
EditFile ==
    \E p \in Paths, d \in DiskValues :
        /\ pipe.pc # "indexing"
        /\ pipe.edits < MaxEdits
        /\ d # disk[p]
        /\ disk' = [disk EXCEPT ![p] = d]
        /\ pipe' = [pipe EXCEPT !.edits = @ + 1]
        /\ quiet' = FALSE
        /\ UNCHANGED <<dbVars, idxVars, run_vectors, run_image_vectors,
                       vectors_json, image_vectors_json, last_run>>

\* Database::delete_file(path), called between runs
DeleteRequest ==
    /\ pipe.pc # "indexing"
    /\ pipe.deletes < MaxDeletes
    /\ DeleteFile
    /\ pipe' = [pipe EXCEPT !.deletes = @ + 1]
    /\ quiet' = FALSE
    /\ UNCHANGED <<idxVars, disk, run_vectors, run_image_vectors,
                   vectors_json, image_vectors_json, last_run>>

(***************************************************************************)
(* Claims about the pipeline                                               *)
(***************************************************************************)

\* C2 (pipeline idempotence): when a run finishes that was made with the
\* same options as the run before it, with no file edited and no File
\* deleted since that run finished, count_files(), num_docs(), the size of
\* each vector store (in the process and as saved) and the id of every
\* path are what they were when the earlier run finished.
C2_Idempotence ==
    [][(/\ pipe.pc = "indexing"
        /\ pipe'.pc = "idle"
        /\ last_run.valid
        /\ quiet
        /\ last_run.semantic = pipe.semantic
        /\ last_run.clip = pipe.clip) =>
          /\ count_files(files') = last_run.count_files
          /\ num_docs(idx_reader') = last_run.num_docs
          /\ vs_len(run_vectors') = last_run.vectors_len
          /\ vs_len(run_image_vectors') = last_run.image_vectors_len
          /\ vs_len(vectors_json'.vectors) = last_run.saved_len
          /\ vs_len(image_vectors_json'.vectors) = last_run.saved_image_len
          /\ \A p \in Paths : files'[p].id = last_run.ids[p]]_vars

\* C2 witness: a semantic run over a text file and an image has been
\* repeated unchanged, and left two Files, two documents and a vector.
C2_Witness ==
    /\ pipe.pc = "idle"
    /\ last_run.repeat
    /\ last_run.semantic
    /\ last_run.count_files = 2
    /\ last_run.num_docs = 2
    /\ last_run.vectors_len = 1
    /\ last_run.saved_len = 1

\* The file_ids the committed index and the saved vector stores hold
IndexedIds ==
    DocIds(idx_committed) \cup vs_keys(vectors_json.vectors)
        \cup vs_keys(image_vectors_json.vectors)

\* C3 (cross-store referential integrity), as claimed: between runs, in
\* any state reached by indexing runs and delete_file requests, every
\* file_id in the committed index or in a vector store has a File record.
C3_ReferentialIntegrity ==
    (pipe.pc = "idle" /\ pipe.runs > 0) =>
        \A i \in IndexedIds : get_file(files, i) # {}

\* An extractor returns Err for path p with bytes d: extract_metadata, or
\* extract_text, which is called for every kind but an image
ExtractorFails(p, d) ==
    \/ ~extract_metadata(p, d, 0).ok
    \/ /\ detect_file_type(p) # "Image"
       /\ ~extract_text(detect_file_type(p), d).ok

\* The step is one iteration of the loop: the head of the queue is taken
\* and the run goes on
IsIndexFile ==
    /\ pipe.pc = "indexing"
    /\ pipe.queue # <<>>
    /\ pipe'.pc = "indexing"
    /\ pipe'.queue = Tail(pipe.queue)

\* The step is the end of a run that ran to the end
IsFinishRun == pipe.pc = "indexing" /\ pipe'.pc = "idle"

\* C15 (skipped files stay metadata-only), as claimed: when an extractor
\* fails for a discovered file, the iteration counts it as skipped and the
\* run goes on with the next file; and when the run finishes, every
\* discovered file an extractor failed for has a File row.
C15_SkippedKeepRow ==
    [][/\ (IsIndexFile /\ ExtractorFails(Head(pipe.queue),
                                          disk[Head(pipe.queue)])) =>
            /\ pipe'.skipped_count = pipe.skipped_count + 1
            /\ pipe'.indexed_count = pipe.indexed_count
       /\ IsFinishRun =>
            \A n \in DOMAIN walk(disk) :
                ExtractorFails(walk(disk)[n], disk[walk(disk)[n]]) =>
                    HasRow(files', walk(disk)[n])]_vars

\* An embedding call returns Err in the iteration for path p with bytes d:
\* embed_image for an image when the CLIP model is loaded, embed for an
\* extracted text when the text model is loaded
EmbeddingFails(p, d, text_model, image_model) ==
    /\ extract_metadata(p, d, 0).ok
    /\ IF detect_file_type(p) = "Image"
       THEN image_model /\ ~embed_image(d).ok
       ELSE /\ text_model
            /\ extract_text(detect_file_type(p), d).ok
            /\ ~embed(extract_text(detect_file_type(p), d).text).ok

\* index_folder has returned Err to its caller
ReturnedErr(pp) == pp.pc = "failed"

\* C16 (error propagation), as claimed: an iteration in which an embedding
\* call fails ends the run with the error; a file is counted as skipped
\* only when an extractor failed for it; and a failed store or index call
\* ends the run with the error.
C16_ErrorPropagation ==
    [][(pipe.pc = "indexing" /\ pipe.queue # <<>> /\ pipe' # pipe) =>
         /\ EmbeddingFails(Head(pipe.queue), disk[Head(pipe.queue)],
                           pipe.semantic, pipe.clip) => ReturnedErr(pipe')
         /\ (IsIndexFile /\ pipe'.skipped_count > pipe.skipped_count) =>
                ExtractorFails(Head(pipe.queue), disk[Head(pipe.queue)])
         /\ pipe'.faults > pipe.faults => ReturnedErr(pipe')]_vars

\* The run wrote a File row for path p, whose bytes are d: db.upsert_file
\* is reached for every discovered file whose metadata could be extracted
RowWritten(p, d) == extract_metadata(p, d, 0).ok

\* Every keyword search for the filename of p, with room for every
\* document, returns a document of file_id id
FoundByName(reader, p, id) ==
    \A H \in idx_search(reader, -p, num_docs(reader)) :
        \E doc \in H : doc.file_id = id

\* C17 (every indexed File is findable by name), as claimed: when a run
\* has committed, each file the run wrote a File row for has a document in
\* the index under its file_id and is returned by a keyword search on its
\* filename.
C17_FindableByName ==
    [][IsFinishRun =>
         \A p \in Paths :
            RowWritten(p, disk[p]) =>
                /\ DocsOf(idx_reader', files'[p].id) # {}
                /\ FoundByName(idx_reader', p, files'[p].id)]_vars

\* The iteration is a rescan of path p: the path has a File row and its
\* metadata is extracted again
IsRescan(p) ==
    /\ IsIndexFile
    /\ p = Head(pipe.queue)
    /\ HasRow(files, p)
    /\ extract_metadata(p, disk[p], 0).ok

\* C18 (lifecycle frame condition), as claimed: on a rescan of a path, the
\* File row is changed if and only if the file's hash differs from the
\* stored hash; when the hash is unchanged, every stored column of the
\* row, indexed_at included, and the Content row are left as they were.
C18_LifecycleFrame ==
    [][\A p \in Paths :
         IsRescan(p) =>
            /\ (files'[p] # files[p]) <=>
                   (files[p].hash # compute_file_hash(disk[p]))
            /\ (files[p].hash = compute_file_hash(disk[p])) =>
                   /\ files'[p].indexed_at = files[p].indexed_at
                   /\ content' = content]_vars

\* What the stores keep for a file_id when all of it is derived from the
\* bytes d of its file: the Content row holds the text of d, a document
\* holds that text (or, for an image, the synthetic "image file" text),
\* and a saved vector is the embedding of d.
FreshContent(ct, id, d) == get_content(ct, id) \in {0, d}

FreshDocs(reader, id, p, d) ==
    \A doc \in DocsOf(reader, id) :
        doc.content = IF detect_file_type(p) = "Image" THEN 0 ELSE d

FreshVector(file, id, d) ==
    file.vectors[id] \in {NoVector, json_vec(embed(d).embedding)}

FreshImageVector(file, id, d) ==
    file.vectors[id] \in {NoVector, json_vec(embed_image(d).embedding)}

\* C19 (reindex on divergence), as claimed: when a run that found a path
\* with a hash other than the stored one finishes, the Content row, the
\* documents a search can return and the saved embeddings for the path's
\* file_id are derived from the file's new bytes, none from its previous
\* version.
C19_ReindexOnDivergence ==
    [][IsFinishRun =>
         \A p \in pipe.changed :
            /\ FreshContent(content', files'[p].id, disk[p])
            /\ FreshDocs(idx_reader', files'[p].id, p, disk[p])
            /\ FreshVector(vectors_json', files'[p].id, disk[p])
            /\ FreshImageVector(image_vectors_json', files'[p].id,
                                disk[p])]_vars

(***************************************************************************)
(* Processes opening one index directory                                   *)
(*                                                                         *)
(* index_folder, search_index and each handle_search request open the      *)
(* index with TantivyIndex::new, which builds an IndexWriter as well as a  *)
(* reader.  Index::writer takes the directory's writer lock without        *)
(* waiting and returns an error when the lock is held; the lock is         *)
(* released when the writer is dropped with the TantivyIndex.              *)
(***************************************************************************)
Procs == 1..NumProcs

SearchRoles == {"search_index", "handle_search"}

Roles == {"index_folder"} \cup SearchRoles

Proc(role, pc, served) == [role |-> role, pc |-> pc, served |-> served]

LockInit ==
    /\ writer_lock = 0
    /\ procs = [i \in Procs |-> Proc("", "idle", 0)]

\* index.writer(50_000_000): [ok, lock]
index_writer(lock, i) ==
    IF lock = 0
    THEN [ok |-> TRUE, lock |-> i]
    ELSE [ok |-> FALSE, lock |-> lock]

\* TantivyIndex::new(&tantivy_path) in process or request i
OpenIndex ==
    \E i \in Procs, role \in Roles :
        /\ procs[i].pc = "idle"
        /\ LET w == index_writer(writer_lock, i)
           IN  /\ writer_lock' = w.lock
               /\ procs' = [procs EXCEPT ![i] =
                               Proc(role, IF w.ok THEN "open" ELSE "failed",
                                    0)]

\* One use of the opened index: a keyword_search or hybrid_search of a
\* query path, an upsert_document or commit of an indexing run
UseIndex ==
    \E i \in Procs :
        /\ procs[i].pc = "open"
        /\ procs[i].served < MaxQueries
        /\ procs' = [procs EXCEPT ![i].served = @ + 1]
        /\ UNCHANGED writer_lock

\* The function returns and the TantivyIndex is dropped with its writer
DropIndex ==
    \E i \in Procs :
        /\ procs[i].pc = "open"
        /\ writer_lock' = 0
        /\ procs' = [procs EXCEPT ![i] = Proc("", "idle", 0)]

\* The error of TantivyIndex::new has been returned or answered; the
\* process or request is over
ReturnError ==
    \E i \in Procs :
        /\ procs[i].pc = "failed"
        /\ procs' = [procs EXCEPT ![i] = Proc("", "idle", 0)]
        /\ UNCHANGED writer_lock

\* C20 (single writer, many readers), as claimed: no search, from the
\* command line or over HTTP, fails to open the index, whether an indexing
\* run or any number of other searches have it open.
C20_ManyReaders ==
    \A i \in Procs :
        procs[i].role \in SearchRoles => procs[i].pc # "failed"

(***************************************************************************)
(* Functions studied alone: the arguments are call_in, the call happens    *)
(* once and leaves its result in call_out.                                 *)
(***************************************************************************)
Call(op, result) == [op |-> op, result |-> result]

\* No call made
CallNone ==
    /\ call_in = <<>>
    /\ call_out = Call("new", <<>>)

(***************************************************************************)
(* Walker: FileWalker::walk and matches_pattern                            *)
(*                                                                         *)
(* Paths and patterns are strings of one-byte characters.  The walk is     *)
(* over a root that holds one entry; the privacy profile has one exclude   *)
(* pattern and max_file_size = MaxFileSize.                                *)
(***************************************************************************)
PathBytes == {"/", ".", "k"}

StrsOver(bytes, len) == UNION {[1..n -> bytes] : n \in 0..len}

PathStrs == StrsOver(PathBytes, MaxPathLen) \ {<<>>}

\* The pattern shapes the walker tells apart, each followed by any text
PatternHeads ==
    {<<>>, <<"*", "*">>, <<"*", "*", "/">>, <<"*", "*", "/", "*">>,
     <<"*", "*", "/", "*", ".">>}

Patterns ==
    {h \o t : h \in PatternHeads, t \in StrsOver(PathBytes, MaxPatternLen)}

\* max_file_size: 100 * 1024 * 1024, scaled down
MaxFileSize == 2

starts_with(s, pre) == OccursAt(s, pre, 0)

ends_with(s, suf) ==
    Len(suf) <= Len(s) /\ OccursAt(s, suf, Len(s) - Len(suf))

contains(s, sub) == find(s, sub) # -1

\* A bool, or the panic of a slice out of range
Match(b) == [panics |-> FALSE, value |-> b]

MatchPanic == [panics |-> TRUE, value |-> FALSE]

\* FileWalker::matches_pattern
matches_pattern(path_str, pattern) ==
    IF starts_with(pattern, <<"*", "*", "/">>)
    THEN LET suffix == slice(pattern, 3, Len(pattern))
         IN  IF starts_with(suffix, <<"*">>)
             THEN \* &suffix[2..]
                  IF ~SliceOk(suffix, 2, Len(suffix)) THEN MatchPanic
                  ELSE Match(ends_with(path_str,
                                       slice(suffix, 2, Len(suffix))))
             ELSE Match(contains(path_str, suffix))
    ELSE IF starts_with(pattern, <<"*", "*">>)
         THEN Match(ends_with(path_str, slice(pattern, 2, Len(pattern))))
         ELSE Match(contains(path_str, pattern))

\* exclude_patterns.iter().any(|pattern| self.matches_pattern(path, pattern))
RECURSIVE any_matches(_, _, _)
any_matches(path_str, patterns, n) ==
    IF n > Len(patterns) THEN Match(FALSE)
    ELSE LET m == matches_pattern(path_str, patterns[n])
         IN  IF m.panics \/ m.value THEN m
             ELSE any_matches(path_str, patterns, n + 1)

Entry(path, is_dir, size, kind) ==
    [path |-> path, is_dir |-> is_dir, size |-> size, kind |-> kind]

WalkResult(err, found) == [err |-> err, files |-> found]

\* The body of the loop of walk for one entry: the entries to add to
\* files, or the panic
walk_entry(e, patterns, max_file_size) ==
    IF e.is_dir THEN WalkResult("", <<>>)
    ELSE LET should_exclude == any_matches(e.path, patterns, 1)
         IN  IF should_exclude.panics THEN WalkResult("panic", <<>>)
             ELSE IF should_exclude.value THEN WalkResult("", <<>>)
             ELSE IF e.size > max_file_size THEN WalkResult("", <<>>)
             ELSE IF e.kind = "Archive" THEN WalkResult("", <<>>)
             ELSE WalkResult("", <<e>>)

\* FileWalker::walk over a root that holds the one entry e
walker_walk(root_exists, e, patterns, max_file_size) ==
    IF ~root_exists THEN WalkResult("FileNotFound", <<>>)
    ELSE walk_entry(e, patterns, max_file_size)

WalkInput(root_exists, e, patterns) ==
    [root_exists |-> root_exists, entry |-> e, patterns |-> patterns]

WalkInit ==
    /\ call_in \in
          {WalkInput(x, Entry(p, d, sz, k), <<pat>>) :
              x \in BOOLEAN, p \in PathStrs, d \in BOOLEAN,
              sz \in (MaxFileSize - 1)..(MaxFileSize + 1),
              k \in {"Text", "Archive"}, pat \in Patterns}
    /\ call_out = Call("new", <<>>)

Walk ==
    /\ call_out.op = "new"
    /\ call_out' = Call("walk",
                        walker_walk(call_in.root_exists, call_in.entry,
                                    call_in.patterns, MaxFileSize))
    /\ UNCHANGED call_in

\* The pattern language as claimed: `**/*.E` matches a path ending in .E,
\* `**/X` a path containing segment X, `**X` a path with suffix X, any
\* other pattern a path containing it.
HasSegment(path_str, x) ==
    \E pos \in 0..Len(path_str) :
        /\ OccursAt(path_str, x, pos)
        /\ (pos = 0 \/ path_str[pos] = "/")
        /\ (pos + Len(x) = Len(path_str) \/ path_str[pos + Len(x) + 1] = "/")

ClaimedMatch(path_str, pattern) ==
    IF starts_with(pattern, <<"*", "*", "/", "*", ".">>)
    THEN ends_with(path_str, SubSeq(pattern, 5, Len(pattern)))
    ELSE IF starts_with(pattern, <<"*", "*", "/">>)
    THEN HasSegment(path_str, SubSeq(pattern, 4, Len(pattern)))
    ELSE IF starts_with(pattern, <<"*", "*">>)
    THEN ends_with(path_str, SubSeq(pattern, 3, Len(pattern)))
    ELSE contains(path_str, pattern)

\* C23 (walker filter), as claimed: walk returns FileNotFound when the
\* root does not exist; otherwise it does not abort, whatever the
\* pattern; an entry is emitted only for a file that is not a directory,
\* matches no exclude pattern, is at most max_file_size long and is not
\* an archive; and such a file of exactly max_file_size is emitted.
C23_WalkerFilter ==
    call_out.op = "walk" =>
        LET e == call_in.entry
            res == call_out.result
            excluded == \E n \in DOMAIN call_in.patterns :
                            ClaimedMatch(e.path, call_in.patterns[n])
            passes == /\ ~e.is_dir
                      /\ ~excluded
                      /\ e.size <= MaxFileSize
                      /\ e.kind # "Archive"
        IN  /\ ~call_in.root_exists => res.err = "FileNotFound"
            /\ call_in.root_exists =>
                  /\ res.err = ""
                  /\ res.files # <<>> => (res.files = <<e>> /\ passes)
                  /\ (/\ passes
                      /\ e.size = MaxFileSize
                      /\ ~any_matches(e.path, call_in.patterns, 1).value) =>
                        res.files = <<e>>

(***************************************************************************)
(* Embedding models: normalize, and the vector the pipeline stores         *)
(*                                                                         *)
(* f32 arithmetic is fixed-point.  A component handed to normalize is a    *)
(* whole number 0..MaxPooled or NonFinite (NaN); a component of the result *)
(* stands for n / NormScale, so that a unit vector has squared length      *)
(* NormScale * NormScale.                                                  *)
(***************************************************************************)
MaxPooled == 3
NormScale == 10000
SqrtScale == 5000
SqrtMax == 40000

PooledComps == (0..MaxPooled) \cup {NonFinite}

\* The output dimension of each model: text (MiniLM), image (CLIP)
ModelDimension(model) == IF model = "image" THEN ImageDimension ELSE Dimension

\* f32::sqrt on whole numbers: the largest r in lo..hi with r * r <= n
RECURSIVE SqrtBetween(_, _, _)
SqrtBetween(n, lo, hi) ==
    IF lo >= hi THEN lo
    ELSE LET mid == (lo + hi + 1) \div 2
         IN  IF mid * mid <= n THEN SqrtBetween(n, mid, hi)
             ELSE SqrtBetween(n, lo, mid - 1)

sqrt(n) == SqrtBetween(n, 0, SqrtMax)

\* a / b rounded to the nearest whole number, b > 0
RoundDiv(a, b) == (2 * a + b) \div (2 * b)

HasNonFinite(v) == \E i \in DOMAIN v : v[i] = NonFinite

\* embedding.iter().map(|x| x * x).sum(): NaN if any component is
RECURSIVE SumSquaresFrom(_, _)
SumSquaresFrom(v, i) ==
    IF i > Len(v) THEN 0 ELSE v[i] * v[i] + SumSquaresFrom(v, i + 1)

SumSquares(v) == IF HasNonFinite(v) THEN NonFinite ELSE SumSquaresFrom(v, 1)

\* The embedding as it is, in units of 1 / NormScale
Unscaled(v) ==
    [i \in DOMAIN v |-> IF v[i] = NonFinite THEN NonFinite ELSE v[i] * NormScale]

\* EmbeddingModel::normalize / ImageEmbeddingModel::normalize.
\* norm > 0.0 is false for a zero norm and for NaN.
normalize(embedding) ==
    LET sum == SumSquares(embedding)
        norm == IF sum = NonFinite THEN NonFinite
                ELSE sqrt(sum * SqrtScale * SqrtScale)
    IN  IF norm > 0
        THEN [i \in DOMAIN embedding |->
                 RoundDiv(embedding[i] * NormScale * SqrtScale, norm)]
        ELSE Unscaled(embedding)

\* |norm - 1| <= 1e-4, on a stored vector
UnitNorm(v) ==
    /\ ~HasNonFinite(v)
    /\ (NormScale - 1) * (NormScale - 1) <= SumSquares(v)
    /\ SumSquares(v) <= (NormScale + 1) * (NormScale + 1)

\* What the model's session hands to normalize: the pooled output of the
\* text model or the output of the image model
EmbedInput(model, pooled) == [model |-> model, pooled |-> pooled]

EmbedInputs ==
    {EmbedInput(m, p) : m \in {"text"}, p \in [1..Dimension -> PooledComps]}
    \cup {EmbedInput(m, p) : m \in {"image"},
                             p \in [1..ImageDimension -> PooledComps]}

EmbedInit ==
    /\ call_in \in EmbedInputs
    /\ call_out = Call("new", <<>>)

\* index_folder: if let Ok(embedding) = model.embed(..) { store.upsert(file_id, &embedding)? }
\* on a store made by VectorStore::new(dimension of the model)
EmbedStore ==
    /\ call_out.op = "new"
    /\ LET embedding == normalize(call_in.pooled)
           r == vs_upsert([i \in VecIds |-> NoVector],
                          ModelDimension(call_in.model), 1, embedding)
       IN  call_out' = Call("store", [embedding |-> embedding,
                                      ok |-> r.ok, vectors |-> r.vectors])
    /\ UNCHANGED call_in

IsZero(v) == \A i \in DOMAIN v : v[i] = 0

\* C25: every vector the pipeline stores in the text or image vector store
\* has L2 norm 1 within 1e-4, and normalize returns an all-zero vector
\* unchanged.
C25_UnitNormStored ==
    call_out.op = "store" =>
        /\ \A i \in VecIds :
              call_out.result.vectors[i] # NoVector =>
                  UnitNorm(call_out.result.vectors[i])
        /\ IsZero(call_in.pooled) => call_out.result.embedding = call_in.pooled

(***************************************************************************)
(* Reading a File back: impl From<FileMetadataRow> for FileMetadata        *)
(***************************************************************************)
\* FileType::from_extension, on a lower-case string
from_extension(ext) ==
    CASE ext \in {"txt", "text"} -> "Text"
      [] ext \in {"md", "markdown"} -> "Markdown"
      [] ext \in {"rs", "py", "js", "ts", "java", "c", "cpp", "go", "rb"} -> "Code"
      [] ext = "pdf" -> "Pdf"
      [] ext \in {"docx", "doc"} -> "Docx"
      [] ext \in {"xlsx", "xls"} -> "Xlsx"
      [] ext \in {"jpg", "jpeg", "png", "gif", "bmp", "webp"} -> "Image"
      [] ext \in {"zip", "tar", "gz", "7z"} -> "Archive"
      [] OTHER -> "Unknown"

\* The FileMetadata made from the row of path p
metadata_from_row(p, row) ==
    [path |-> p, hash |-> row.hash,
     file_type |-> from_extension(row.file_type),
     indexed_at |-> row.indexed_at]

\* A File of any kind, and the call that reads it back
ReadBackInputs ==
    {[meta |-> [FileMetadata(p, h, 0) EXCEPT !.file_type = k], by |-> op] :
        p \in Paths, h \in Hashes, k \in FileType,
        op \in {"get_file", "get_file_by_path"}}

ReadBackInit ==
    /\ call_in \in ReadBackInputs
    /\ call_out = Call("new", <<>>)

\* db.upsert_file(&meta) on a new Database, then get_file(id) or
\* get_file_by_path(path)
ReadBack ==
    /\ call_out.op = "new"
    /\ LET r == upsert_file([p \in Paths |-> NoRow], 1, call_in.meta, 1)
           p == IF call_in.by = "get_file"
                THEN CHOOSE q \in get_file(r.files, r.id) : TRUE
                ELSE call_in.meta.path
       IN  call_out' = Call(call_in.by,
                            metadata_from_row(p, get_file_by_path(r.files, p)))
    /\ UNCHANGED call_in

\* C26: a File upserted with kind Code is read back by get_file and by
\* get_file_by_path with kind Code.
C26_CodeReadBack ==
    (call_out.op \in {"get_file", "get_file_by_path"}
        /\ call_in.meta.file_type = "Code") =>
            call_out.result.file_type = "Code"

(***************************************************************************)
(* Query path: web::handle_search                                          *)
(*                                                                         *)
(* The index directory holds one File per id: id 1 is found by the keyword *)
(* search, id 2 by the text vector search, id 3 by the image vector        *)
(* search.  The environment says which files are present and which         *)
(* operations fail when they are called.                                   *)
(***************************************************************************)
MaxFailures == 2

IndexParts == {"tantivy", "vectors.json", "model.onnx", "image_vectors.json",
               "clip_text.onnx"}

Failures == {"Database::new", "TantivyIndex::new", "VectorStore::load text",
             "EmbeddingModel::new", "embed", "search",
             "VectorStore::load image", "ClipTextEmbedding::new",
             "embed_text", "image search", "get_file", "get_content"}

QueryEnv(semantic, present, failing) ==
    [semantic |-> semantic, present |-> present, failing |-> failing]

QueryEnvs ==
    {QueryEnv(s, p, f) : s \in BOOLEAN, p \in SUBSET IndexParts,
                         f \in {g \in SUBSET Failures :
                                    Cardinality(g) <= MaxFailures}}

\* The response: status, and the entries of documents and images
Response(status, documents, images) ==
    [status |-> status, documents |-> documents, images |-> images]

\* A SearchResult of documents: file_type from get_file ("unknown" when it
\* gives nothing), snippet from get_content
DocumentEntry(id, env) ==
    [file_id |-> id,
     file_type |-> IF "get_file" \in env.failing THEN "unknown" ELSE "text",
     snippet |-> "get_content" \notin env.failing]

\* web.rs:160-167: the text vector store the search runs over
text_vector_ids(env) ==
    IF env.semantic /\ "vectors.json" \in env.present
                    /\ "VectorStore::load text" \notin env.failing
    THEN {2} ELSE {}

\* web.rs:252-275: image_results
image_results(env) ==
    IF /\ env.semantic
       /\ "image_vectors.json" \in env.present
       /\ "VectorStore::load image" \notin env.failing
       /\ "clip_text.onnx" \in env.present
       /\ "ClipTextEmbedding::new" \notin env.failing
       /\ "embed_text" \notin env.failing
       /\ "image search" \notin env.failing
    THEN {3} ELSE {}

\* web.rs:277-347: the 200 response built from results and image_results
ok_response(results, env) ==
    Response(200,
             {DocumentEntry(id, env) : id \in results},
             IF "get_file" \in env.failing THEN {} ELSE image_results(env))

handle_search(env) ==
    IF "tantivy" \notin env.present THEN Response(404, {}, {})
    ELSE IF "Database::new" \in env.failing THEN Response(500, {}, {})
    ELSE IF "TantivyIndex::new" \in env.failing THEN Response(500, {}, {})
    ELSE IF env.semantic
    THEN IF "model.onnx" \notin env.present THEN Response(400, {}, {})
         ELSE IF "EmbeddingModel::new" \in env.failing THEN Response(500, {}, {})
         ELSE IF "embed" \in env.failing THEN Response(500, {}, {})
         ELSE IF "search" \in env.failing THEN Response(500, {}, {})
         ELSE ok_response({1} \cup text_vector_ids(env), env)
    ELSE IF "search" \in env.failing THEN Response(500, {}, {})
         ELSE ok_response({1}, env)

QueryInit ==
    /\ call_in \in QueryEnvs
    /\ call_out = Call("new", <<>>)

HandleSearch ==
    /\ call_out.op = "new"
    /\ call_out' = Call("handle_search", handle_search(call_in))
    /\ UNCHANGED call_in

\* C27: a failure in the query path yields an error response, never a 200
\* response in which the affected results are missing: a 200 response is the
\* response the same index gives when nothing fails.
C27_ErrorsSurface ==
    (call_out.op = "handle_search" /\ call_out.result.status = 200) =>
        call_out.result = handle_search([call_in EXCEPT !.failing = {}])

(***************************************************************************)
(* Runs over subtrees: index_folder(folder) with one index directory       *)
(*                                                                         *)
(* A folder is the set of paths under it; call_in keeps the folders of the *)
(* runs made so far, oldest first.                                         *)
(***************************************************************************)
Folders == (SUBSET Paths) \ {{}}

\* FileWalker::walk(folder): the files present under the folder
walk_folder(d, folder) ==
    LET Under(p) == p \in folder IN SelectSeq(walk(d), Under)

\* index_folder(folder, ..) up to the loop
StartRunAt ==
    \E folder \in Folders, semantic \in BOOLEAN, clip \in BOOLEAN :
        /\ pipe.pc # "indexing"
        /\ pipe.runs < MaxRuns
        /\ clip => semantic
        /\ pipe' = [pipe EXCEPT !.pc = "indexing", !.semantic = semantic,
                                !.clip = clip,
                                !.queue = walk_folder(disk, folder),
                                !.indexed_count = 0, !.skipped_count = 0,
                                !.changed = {}, !.runs = @ + 1]
        /\ call_in' = Append(call_in, folder)
        /\ idx_writer' = idx_committed
        /\ idx_reader' = reader_reload(idx_committed)
        /\ idx_last' = IdxCall("new", 0, 0, {}, 0)
        /\ run_vectors' = NoVectors
        /\ run_image_vectors' = NoVectors
        /\ UNCHANGED <<dbVars, idx_committed, idx_at_commit, idx_batch,
                       idx_replaced, disk, call_out,
                       vectors_json, image_vectors_json, last_run, quiet>>

\* The run that is finishing and the run before it were made on disjoint
\* folders, both with semantic search enabled, and the earlier one finished
AfterDisjointRun ==
    /\ pipe.pc = "indexing"
    /\ pipe'.pc = "idle"
    /\ pipe.semantic
    /\ last_run.valid
    /\ last_run.semantic
    /\ Len(call_in) >= 2
    /\ call_in[Len(call_in)] \cap call_in[Len(call_in) - 1] = {}

\* C28: after index_folder with semantic enabled on subtree A and then on a
\* disjoint subtree B with the same index directory, vectors.json still
\* holds a vector for every embedded file of A.
C28_VectorsPersist ==
    [][AfterDisjointRun =>
          \A i \in FileIds :
              vectors_json.vectors[i] # NoVector =>
                  vectors_json'.vectors[i] # NoVector]_vars

(***************************************************************************)
(* Counters of a run                                                       *)
(***************************************************************************)
\* C29: when index_folder completes without returning an error,
\* indexed_count + skipped_count is the number of files the walker
\* discovered, whatever branch each file took.
C29_EveryFileCounted ==
    [][(pipe.pc = "indexing" /\ pipe'.pc = "idle") =>
          pipe'.indexed_count + pipe'.skipped_count = Len(walk(disk))]_vars

\* A run with the CLIP model loaded has completed over a text file that was
\* indexed and an image that could not be embedded
C29_CountedBothWays ==
    /\ pipe.pc = "idle"
    /\ pipe.runs >= 1
    /\ pipe.edits = 0
    /\ pipe.clip
    /\ disk[1] \in Versions
    /\ disk[2] = Corrupt
    /\ pipe.indexed_count = 1
    /\ pipe.skipped_count = 1

(***************************************************************************)
(* A store made by new or by load, then used                               *)
(*                                                                         *)
(* call_in says how the store was made and with which dimension; the       *)
(* document loaded is vs_file.                                             *)
(***************************************************************************)
\* Every JSON document VectorStoreData deserializes from: a dimension and a
\* map from ids to arrays of numbers
AcceptedDocs ==
    {vs_save(v, dim) : v \in [VecIds -> Embeddings], dim \in 1..(Dimension + 1)}

\* VectorStore::new(Dimension), or VectorStore::load of an accepted document
LoadInit ==
    /\ vs_file \in AcceptedDocs \cup {NoFile(VecIds)}
    /\ wr = Writer("idle", NoFile(VecIds))
    /\ call_in = IF vs_file.exists
                 THEN Call("load", vs_load(vs_file).dimension)
                 ELSE Call("new", Dimension)
    /\ vs_vectors = IF vs_file.exists THEN vs_load(vs_file).vectors
                    ELSE [i \in VecIds |-> NoVector]
    /\ vs_last = VsCall("new", 0, <<>>, 0, TRUE, <<>>)
    /\ call_out = Call("new", <<>>)

\* The store's dimension field
dimension == call_in.result

\* assert_eq!(a.len(), b.len(), ..) of cosine_similarity fails
cosine_similarity_panics(a, b) == Len(a) # Len(b)

\* VectorStore::search reaches a failing assertion
search_panics(vecs, q) ==
    \E i \in vs_keys(vecs) : cosine_similarity_panics(q, vecs[i])

LdUpsert ==
    \E i \in VecIds, e \in Embeddings :
        LET r == vs_upsert(vs_vectors, dimension, i, e)
        IN  /\ vs_vectors' = r.vectors
            /\ call_out' = Call("upsert", [ok |-> r.ok, panics |-> FALSE])
            /\ UNCHANGED <<vs_last, vs_file, wr, call_in>>

LdDelete ==
    \E i \in VecIds :
        /\ vs_vectors' = vs_delete(vs_vectors, i)
        /\ call_out' = Call("delete", [ok |-> TRUE, panics |-> FALSE])
        /\ UNCHANGED <<vs_last, vs_file, wr, call_in>>

LdSearch ==
    \E q \in Embeddings :
        /\ call_out' =
              Call("search",
                   IF Len(q) # dimension THEN [ok |-> FALSE, panics |-> FALSE]
                   ELSE IF search_panics(vs_vectors, q)
                   THEN [ok |-> FALSE, panics |-> TRUE]
                   ELSE [ok |-> TRUE, panics |-> FALSE])
        /\ UNCHANGED <<vs_vectors, vs_last, vs_file, wr, call_in>>

\* C30: in every state of a store made by new(D) or by load of a document
\* that load accepts, and then changed by upsert and delete, every stored
\* vector has the length of the store's dimension, and a search with a query
\* of that length does not reach the failing assertion of cosine_similarity.
C30_VectorLength ==
    /\ \A i \in vs_keys(vs_vectors) : Len(vs_vectors[i]) = dimension
    /\ call_out.op = "search" => ~call_out.result.panics

(***************************************************************************)
(* Specifications: one per component, over the whole state                 *)
(***************************************************************************)
RrfNone == RrfIdle /\ rrf_in = RrfInput(<<>>, <<>>, 0)

\* Initial states: the component under study starts as constructed, the
\* others stay as constructed throughout.
Init == DbInit /\ VsInit /\ FileInit /\ IdxInit /\ RrfNone /\ SnipNone
        /\ PipeNone /\ LockInit /\ CallNone

DbStep ==
    \/ UpsertFile /\ UNCHANGED <<vsVars, fileVars, idxVars, rrfVars, snipVars,
                                  pipeVars,
                lockVars, callVars>>
    \/ UpsertContent /\ UNCHANGED <<vsVars, fileVars, idxVars, rrfVars, snipVars,
                                  pipeVars,
                lockVars, callVars>>
    \/ NeedsReindex /\ UNCHANGED <<vsVars, fileVars, idxVars, rrfVars, snipVars,
                                  pipeVars,
                lockVars, callVars>>
    \/ DeleteFile /\ UNCHANGED <<vsVars, fileVars, idxVars, rrfVars, snipVars,
                                  pipeVars,
                lockVars, callVars>>

SpecDb == Init /\ [][DbStep]_vars

VsStep ==
    \/ VsUpsert /\ UNCHANGED <<dbVars, fileVars, idxVars, rrfVars, snipVars,
                                pipeVars,
                lockVars, callVars>>
    \/ VsDelete /\ UNCHANGED <<dbVars, fileVars, idxVars, rrfVars, snipVars,
                                pipeVars,
                lockVars, callVars>>
    \/ VsSearch /\ UNCHANGED <<dbVars, fileVars, idxVars, rrfVars, snipVars,
                                pipeVars,
                lockVars, callVars>>

SpecVS == Init /\ [][VsStep]_vars

SaveStep ==
    \/ SvUpsert /\ UNCHANGED <<dbVars, idxVars, rrfVars, snipVars, pipeVars,
                lockVars, callVars>>
    \/ SvDelete /\ UNCHANGED <<dbVars, idxVars, rrfVars, snipVars, pipeVars,
                lockVars, callVars>>
    \/ SvSave /\ UNCHANGED <<dbVars, idxVars, rrfVars, snipVars, pipeVars,
                lockVars, callVars>>
    \/ SvLoad /\ UNCHANGED <<dbVars, idxVars, rrfVars, snipVars, pipeVars,
                lockVars, callVars>>

SpecSave == Init /\ [][SaveStep]_vars

WriteStep ==
    \/ WrUpsert /\ UNCHANGED <<dbVars, idxVars, rrfVars, snipVars, pipeVars,
                                lockVars, callVars>>
    \/ WrCreate /\ UNCHANGED <<dbVars, idxVars, rrfVars, snipVars, pipeVars,
                                lockVars, callVars>>
    \/ WrWritePart /\ UNCHANGED <<dbVars, idxVars, rrfVars, snipVars, pipeVars,
                                   lockVars, callVars>>
    \/ WrWriteRest /\ UNCHANGED <<dbVars, idxVars, rrfVars, snipVars, pipeVars,
                                   lockVars, callVars>>
    \/ WrFail /\ UNCHANGED <<dbVars, idxVars, rrfVars, snipVars, pipeVars,
                              lockVars, callVars>>
    \/ WrLoad /\ UNCHANGED <<dbVars, idxVars, rrfVars, snipVars, pipeVars,
                              lockVars, callVars>>

SpecWrite == Init /\ [][WriteStep]_vars

IdxStep ==
    \/ IdxUpsertDocument /\ UNCHANGED <<dbVars, vsVars, fileVars,
                                         rrfVars, snipVars, pipeVars,
                lockVars, callVars>>
    \/ IdxCommit /\ UNCHANGED <<dbVars, vsVars, fileVars,
                                         rrfVars, snipVars, pipeVars,
                lockVars, callVars>>
    \/ IdxDeleteDocument /\ UNCHANGED <<dbVars, vsVars, fileVars,
                                         rrfVars, snipVars, pipeVars,
                lockVars, callVars>>
    \/ IdxSearch /\ UNCHANGED <<dbVars, vsVars, fileVars,
                                         rrfVars, snipVars, pipeVars,
                lockVars, callVars>>
    \/ IdxNumDocs /\ UNCHANGED <<dbVars, vsVars, fileVars,
                                         rrfVars, snipVars, pipeVars,
                lockVars, callVars>>

SpecIdx == Init /\ [][IdxStep]_vars

RrfStep ==
    \/ Fuse /\ UNCHANGED <<dbVars, vsVars, fileVars, idxVars,
                                    snipVars, pipeVars,
                lockVars, callVars>>
    \/ HybridSearch /\ UNCHANGED <<dbVars, vsVars, fileVars, idxVars,
                                    snipVars, pipeVars,
                lockVars, callVars>>

InitRRF ==
    RrfDbInit /\ VsInit /\ FileInit /\ IdxInit /\ RrfInit
        /\ SnipNone /\ PipeNone /\ LockInit /\ CallNone

SpecRRF == InitRRF /\ [][RrfStep]_vars

PipeStep ==
    \/ StartRun /\ UNCHANGED <<vsVars, fileVars, rrfVars, snipVars,
                lockVars, callVars>>
    \/ IndexFile /\ UNCHANGED <<vsVars, fileVars, rrfVars, snipVars,
                lockVars, callVars>>
    \/ FinishRun /\ UNCHANGED <<vsVars, fileVars, rrfVars, snipVars,
                lockVars, callVars>>
    \/ AbortRun /\ UNCHANGED <<vsVars, fileVars, rrfVars, snipVars,
                lockVars, callVars>>
    \/ EditFile /\ UNCHANGED <<vsVars, fileVars, rrfVars, snipVars,
                lockVars, callVars>>
    \/ DeleteRequest /\ UNCHANGED <<vsVars, fileVars, rrfVars, snipVars,
                lockVars, callVars>>

InitSnip ==
    DbInit /\ VsInit /\ FileInit /\ IdxInit /\ RrfNone /\ SnipInit /\ PipeNone
        /\ LockInit /\ CallNone

SnipStep ==
    \/ ExtractSnippet /\ UNCHANGED <<dbVars, vsVars, fileVars, idxVars,
                                      rrfVars, pipeVars,
                lockVars, callVars>>

SpecSnip == InitSnip /\ [][SnipStep]_vars

InitPipe ==
    DbInit /\ VsInit /\ FileInit /\ IdxInit /\ RrfNone
        /\ SnipNone /\ PipeInit /\ LockInit /\ CallNone

SpecPipe == InitPipe /\ [][PipeStep]_vars

LockStep ==
    \/ OpenIndex /\ UNCHANGED <<dbVars, vsVars, fileVars, idxVars, rrfVars,
                                 snipVars, pipeVars, callVars>>
    \/ UseIndex /\ UNCHANGED <<dbVars, vsVars, fileVars, idxVars, rrfVars,
                                snipVars, pipeVars, callVars>>
    \/ DropIndex /\ UNCHANGED <<dbVars, vsVars, fileVars, idxVars, rrfVars,
                                 snipVars, pipeVars, callVars>>
    \/ ReturnError /\ UNCHANGED <<dbVars, vsVars, fileVars, idxVars, rrfVars,
                                   snipVars, pipeVars, callVars>>

SpecLock == Init /\ [][LockStep]_vars

InitWalk ==
    DbInit /\ VsInit /\ FileInit /\ IdxInit /\ RrfNone /\ SnipNone
        /\ PipeNone /\ LockInit /\ WalkInit

WalkStep ==
    \/ Walk /\ UNCHANGED <<dbVars, vsVars, fileVars, idxVars, rrfVars,
                            snipVars, pipeVars, lockVars>>

SpecWalk == InitWalk /\ [][WalkStep]_vars

InitEmbed ==
    DbInit /\ VsInit /\ FileInit /\ IdxInit /\ RrfNone /\ SnipNone
        /\ PipeNone /\ LockInit /\ EmbedInit

EmbedStep ==
    \/ EmbedStore /\ UNCHANGED <<dbVars, vsVars, fileVars, idxVars, rrfVars,
                                  snipVars, pipeVars, lockVars>>

SpecEmbed == InitEmbed /\ [][EmbedStep]_vars

InitKind ==
    DbInit /\ VsInit /\ FileInit /\ IdxInit /\ RrfNone /\ SnipNone
        /\ PipeNone /\ LockInit /\ ReadBackInit

KindStep ==
    \/ ReadBack /\ UNCHANGED <<dbVars, vsVars, fileVars, idxVars, rrfVars,
                                snipVars, pipeVars, lockVars>>

SpecKind == InitKind /\ [][KindStep]_vars

InitQuery ==
    DbInit /\ VsInit /\ FileInit /\ IdxInit /\ RrfNone /\ SnipNone
        /\ PipeNone /\ LockInit /\ QueryInit

QueryStep ==
    \/ HandleSearch /\ UNCHANGED <<dbVars, vsVars, fileVars, idxVars, rrfVars,
                                    snipVars, pipeVars, lockVars>>

SpecQuery == InitQuery /\ [][QueryStep]_vars

FolderStep ==
    \/ StartRunAt /\ UNCHANGED <<vsVars, fileVars, rrfVars, snipVars, lockVars>>
    \/ IndexFile /\ UNCHANGED <<vsVars, fileVars, rrfVars, snipVars,
                                 lockVars, callVars>>
    \/ FinishRun /\ UNCHANGED <<vsVars, fileVars, rrfVars, snipVars,
                                 lockVars, callVars>>

SpecFolder == InitPipe /\ [][FolderStep]_vars

InitLoad ==
    DbInit /\ LoadInit /\ IdxInit /\ RrfNone /\ SnipNone /\ PipeNone
        /\ LockInit

LoadStep ==
    \/ LdUpsert /\ UNCHANGED <<dbVars, idxVars, rrfVars, snipVars, pipeVars,
                                lockVars>>
    \/ LdDelete /\ UNCHANGED <<dbVars, idxVars, rrfVars, snipVars, pipeVars,
                                lockVars>>
    \/ LdSearch /\ UNCHANGED <<dbVars, idxVars, rrfVars, snipVars, pipeVars,
                                lockVars>>

SpecLoad == InitLoad /\ [][LoadStep]_vars

====
